---- MODULE Spec2Model ----
(***************************************************************************)
(* Model of the LES / eMAP viewer core:                                    *)
(*   - Les.load_file, the line classifier and its record decoders          *)
(*     (src/les_parser.py) with the Panel/Image naming pass                *)
(*     (src/les_parser_panel_image.py);                                    *)
(*   - LesStep.apply_transformation (src/les_parser.py);                   *)
(*   - the XML repeat walks: the draw walk of xml_drawing.py and the       *)
(*     bounds walks of fit_all / fit_step.                                 *)
(*                                                                         *)
(* Numbers.  Lengths are fixed-point integers counting tenths of a unit,   *)
(* so that the scales 25.4/res and 1/res are exact: a file integer n       *)
(* decodes to 10*n, and  v *= scale  is (v * s) \div 10 with s the scale   *)
(* in tenths.                                                              *)
(*                                                                         *)
(* Text.  A line of a LES file is a record of the lexical features the     *)
(* parser reads: k is the shape decided by the line's leading characters   *)
(* (the regular expressions of Les.__init__ are mutually exclusive on the  *)
(* leading characters), atfh tells whether the text contains "#ATFH", and  *)
(* the remaining fields are the sub-strings the decoders cut out.  A       *)
(* numeric sub-string is a token: Num(v) parses to v, Bad fails to parse,  *)
(* None is an absent segment.                                              *)
(***************************************************************************)
EXTENDS Integers, Sequences, FiniteSets, TLC

\* ------------------------------------------------------------------ bounds
\* number of lines of a LES file
MaxLines == 3
\* nesting of calls of a walk at which the interpreter raises RecursionError
\* (sys.getrecursionlimit(), 1000 by default, scaled down; it stays above the
\* cap of 50 and above ChainLength)
MaxCallDepth == 60

\* ------------------------------------------------------------------ tokens
Num(v) == [t |-> "num", v |-> v]
Bad == [t |-> "bad", v |-> 0]
None == [t |-> "none", v |-> 0]

\* float(s) / int(s) on a token: the value, or a ValueError
Parses(tok) == tok.t = "num"

\* v *= s on fixed-point tenths
Scaled(v, s) == (v * s) \div 10

\* ------------------------------------------------------------------ lines
\* "#ATFH:JOB1"
LineTest == [k |-> "other", atfh |-> TRUE, nparts |-> 2, seg2 |-> "JOB1"]
\* a directive no handler knows
LineUnknown == [k |-> "other", atfh |-> FALSE]
LineBlank == [k |-> "blank", atfh |-> FALSE]
\* "L2"
LineLayer == [k |-> "layer", atfh |-> FALSE, n |-> 2]
\* "UNIT:INCH:2", "UNIT:MM:2", "UNIT:MM:x", "UNIT:MM"
LinesUnit ==
    { [k |-> "unit", atfh |-> FALSE, nparts |-> 3, unit |-> "INCH", res |-> Num(2)],
      [k |-> "unit", atfh |-> FALSE, nparts |-> 3, unit |-> "MM", res |-> Num(2)],
      [k |-> "unit", atfh |-> FALSE, nparts |-> 3, unit |-> "MIL", res |-> Bad],
      [k |-> "unit", atfh |-> FALSE, nparts |-> 2, unit |-> "MM", res |-> None] }
\* "K,X3Y-1," and "K,X3Y-1", "K,X0Y2T1," (T<int> after the Y digits) and
\* "K,X5Y6,T1" (a comma before T<int>, which outline_pattern admits)
LinesOutline ==
    { [k |-> "outline", atfh |-> FALSE, x |-> 3, y |-> -1, tsep |-> "", comma |-> c]
        : c \in BOOLEAN }
      \cup { [k |-> "outline", atfh |-> FALSE, x |-> 0, y |-> 2, tsep |-> "T", comma |-> TRUE],
             [k |-> "outline", atfh |-> FALSE, x |-> 5, y |-> 6, tsep |-> ",T", comma |-> FALSE] }
\* "F,X3Y4" and "F,X5Y2T1I2"
LinesTooling ==
    { [k |-> "tooling", atfh |-> FALSE, x |-> Num(3), y |-> Num(4), t |-> None, img |-> None],
      [k |-> "tooling", atfh |-> FALSE, x |-> Num(5), y |-> Num(2), t |-> Num(1), img |-> Num(2)] }
\* "T1:4", "T1:abc", "O2:abc:2.0", "O2:4:2:x", and "T1:#ATFH:4" (aperture shaped, with the marker)
LinesAperture ==
    { [k |-> "aperture", atfh |-> FALSE, head |-> "T", index |-> 1, fields |-> <<Num(4)>>],
      [k |-> "aperture", atfh |-> FALSE, head |-> "T", index |-> 1, fields |-> <<Bad>>],
      [k |-> "aperture", atfh |-> FALSE, head |-> "O", index |-> 2, fields |-> <<Bad, Num(2)>>],
      [k |-> "aperture", atfh |-> FALSE, head |-> "O", index |-> 2, fields |-> <<Num(4), Num(2), Bad>>],
      [k |-> "aperture", atfh |-> TRUE, nparts |-> 3, seg2 |-> "#ATFH",
       head |-> "T", index |-> 1, fields |-> <<Bad, Num(4)>>] }
\* "STEP:2:XY:1,2:3,4:I2", "STEP:1:D:1,2:3,4", "STEP:1:X:a,2:3,4"
LinesStep ==
    { [k |-> "step", atfh |-> FALSE, nparts |-> 6, amount |-> Num(2), ops |-> <<"X", "Y">>,
       off |-> <<Num(1), Num(2)>>, dist |-> <<Num(3), Num(4)>>, img |-> Num(2)],
      [k |-> "step", atfh |-> FALSE, nparts |-> 5, amount |-> Num(1), ops |-> <<"D">>,
       off |-> <<Num(1), Num(2)>>, dist |-> <<Num(3), Num(4)>>, img |-> None],
      [k |-> "step", atfh |-> FALSE, nparts |-> 5, amount |-> Num(1), ops |-> <<"X">>,
       off |-> <<Bad, Num(2)>>, dist |-> <<Num(3), Num(4)>>, img |-> None] }
\* "@7C2"
LineNet == [k |-> "net", atfh |-> FALSE, index |-> 7, image |-> Num(2), plain |-> FALSE]
\* "@8PC0"
LineNetPlain == [k |-> "net", atfh |-> FALSE, index |-> 8, image |-> Num(0), plain |-> TRUE]
\* "I1X3Y4AST1", "I2X-2Y5ASO9V2", "I3X1Y1*ADT1V3N1"
LinesPoint ==
    { [k |-> "point", atfh |-> FALSE, ident |-> 1, x |-> 3, y |-> 4, logic |-> FALSE,
       typ |-> "S", ap |-> Num(1), v |-> None, star |-> FALSE],
      [k |-> "point", atfh |-> FALSE, ident |-> 2, x |-> -2, y |-> 5, logic |-> FALSE,
       typ |-> "S", ap |-> Num(9), v |-> Num(2), star |-> FALSE],
      [k |-> "point", atfh |-> FALSE, ident |-> 3, x |-> 1, y |-> 1, logic |-> FALSE,
       typ |-> "D", ap |-> Num(1), v |-> Num(3), star |-> TRUE] }

Lines ==
    {LineTest, LineUnknown, LineBlank, LineLayer, LineNet, LineNetPlain}
        \cup LinesUnit \cup LinesOutline \cup LinesTooling
        \cup LinesAperture \cup LinesStep \cup LinesPoint

\* ------------------------------------------------------------------ Aperture
DefaultAperture ==
    [index |-> 0, mode |-> "T", radius |-> 100, inner_radius |-> 0, outer_radius |-> 0,
     width |-> 0, height |-> 0, angle |-> 0]

\* Aperture.__init__(content): the decoded aperture, or raised = TRUE when an
\* unguarded float() meets a field that does not parse
Aperture(content) ==
    LET base == [DefaultAperture EXCEPT !.mode = content.head, !.index = content.index]
        f == content.fields
        n == Len(f) + 1
    IN  IF content.head = "T"
        THEN IF Parses(f[1])
             THEN [raised |-> FALSE, ap |-> [base EXCEPT !.radius = (f[1].v * 10) \div 2]]
             ELSE [raised |-> TRUE, ap |-> base]
        ELSE IF content.head = "O"
        THEN IF n >= 3
             THEN IF Parses(f[1]) /\ Parses(f[2])
                  THEN [raised |-> FALSE,
                        ap |-> [base EXCEPT !.width = f[1].v * 10, !.height = f[2].v * 10,
                                            !.angle = IF n >= 4 /\ Parses(f[3]) THEN f[3].v * 10 ELSE 0]]
                  ELSE [raised |-> TRUE, ap |-> base]
             ELSE [raised |-> FALSE, ap |-> base]
        ELSE IF content.head = "K"
        THEN IF n >= 3
             THEN IF Parses(f[1]) /\ Parses(f[2])
                  THEN [raised |-> FALSE,
                        ap |-> [base EXCEPT !.inner_radius = (f[1].v * 10) \div 2,
                                            !.outer_radius = (f[2].v * 10) \div 2]]
                  ELSE [raised |-> TRUE, ap |-> base]
             ELSE [raised |-> FALSE, ap |-> base]
        ELSE [raised |-> FALSE, ap |-> base]

\* Les._apply_scale_to_aperture
ApplyScaleTwice(ap, s) ==
    [ap EXCEPT !.radius = Scaled(Scaled(@, s), s), !.inner_radius = Scaled(Scaled(@, s), s),
               !.outer_radius = Scaled(Scaled(@, s), s), !.width = Scaled(Scaled(@, s), s),
               !.height = Scaled(Scaled(@, s), s)]

ApplyScaleToAperture(ap, s) ==
    [ap EXCEPT !.radius = Scaled(@, s), !.inner_radius = Scaled(@, s),
               !.outer_radius = Scaled(@, s), !.width = Scaled(@, s),
               !.height = Scaled(@, s)]

\* ------------------------------------------------------------------ Net
\* Net(): the default empty net
DefaultNet == [index |-> 0, image |-> 1, is_plain |-> FALSE, points |-> <<>>]

\* Net.__init__(content)
Net(content) ==
    [index |-> content.index,
     image |-> IF Parses(content.image) THEN content.image.v ELSE 1,
     is_plain |-> content.plain,
     points |-> <<>>]

\* ------------------------------------------------------------------ LesStep
DefaultLesStep ==
    [amount |-> 0, operations |-> <<>>, offset_x |-> 0, offset_y |-> 0,
     distance_x |-> 0, distance_y |-> 0, image |-> 1]

\* LesStep.__init__(content): offsets and distances go through unguarded float()
LesStep(content) ==
    IF content.nparts < 5
    THEN [raised |-> FALSE, st |-> DefaultLesStep]
    ELSE LET s1 == [DefaultLesStep EXCEPT
                        !.amount = IF Parses(content.amount) THEN content.amount.v ELSE 0,
                        !.operations = content.ops]
             offOk == Len(content.off) < 2 \/ (Parses(content.off[1]) /\ Parses(content.off[2]))
             s2 == IF Len(content.off) >= 2 /\ offOk
                   THEN [s1 EXCEPT !.offset_x = content.off[1].v * 10,
                                   !.offset_y = content.off[2].v * 10]
                   ELSE s1
             distOk == Len(content.dist) < 2 \/ (Parses(content.dist[1]) /\ Parses(content.dist[2]))
             s3 == IF Len(content.dist) >= 2 /\ distOk
                   THEN [s2 EXCEPT !.distance_x = content.dist[1].v * 10,
                                   !.distance_y = content.dist[2].v * 10]
                   ELSE s2
             s4 == IF content.nparts > 5 /\ content.img.t # "none"
                   THEN [s3 EXCEPT !.image = IF Parses(content.img) THEN content.img.v ELSE 1]
                   ELSE s3
         IN  IF ~offOk THEN [raised |-> TRUE, st |-> s1]
             ELSE IF ~distOk THEN [raised |-> TRUE, st |-> s2]
             ELSE [raised |-> FALSE, st |-> s4]

\* LesStep.scale_values
ScaleValues(st, s) ==
    [st EXCEPT !.offset_x = Scaled(@, s), !.offset_y = Scaled(@, s),
               !.distance_x = Scaled(@, s), !.distance_y = Scaled(@, s)]

\* ------------------------------------------------------------------ Point
LastAperture(apertures, idx) ==
    LET hits == {k \in 1..Len(apertures) : apertures[k].index = idx}
    IN  IF hits = {} THEN 0 ELSE CHOOSE k \in hits : \A j \in hits : k >= j

\* position in apertures of the first aperture whose index is idx, 0 when none
\* (the  for ap in apertures: if ap.index == idx: ...; break  loops)
FirstAperture(apertures, idx) ==
    LET hits == {k \in 1..Len(apertures) : apertures[k].index = idx}
    IN  IF hits = {} THEN 0 ELSE CHOOSE k \in hits : \A j \in hits : k <= j

\* "Panel {panel} Image {image}"
Label(panel, image) == [panel |-> panel, image |-> image]
\* a point that has no panel_image_name attribute
NoLabel == [panel |-> 0, image |-> 0]

\* Point.__init__ defaults.  aperture is a reference: ap_ref is the position in
\* Les.apertures of the shared Aperture, 0 when the point holds its own
\* Aperture() object, which is then ap_own.  net_ref is the position in Les.nets
\* of the shared Net, 0 for an own empty Net().  line is the position in content
\* of the text kept in Point.original.
DefaultPoint ==
    [line |-> 0, identifier |-> 0, x |-> 0, y |-> 0, type |-> "NONE", style |-> "NORMAL",
     ap_ref |-> 0, ap_own |-> DefaultAperture, net_ref |-> 0, layer |-> 1,
     count_of_layer |-> 1, fill_color |-> "gold", logic_mode |-> FALSE,
     is_enable |-> TRUE, is_test |-> TRUE, image |-> 1, panel_image_name |-> NoLabel]

InitToolingHoleImageFromLine(content, apertures, style) ==
    [DefaultPoint EXCEPT
        !.style = style,
        !.image = IF Parses(content.img) THEN content.img.v ELSE 1,
        !.is_test = FALSE,
        !.is_enable = FALSE,
        !.x = IF Parses(content.x) THEN content.x.v * 10 ELSE 0,
        !.y = IF Parses(content.y) THEN content.y.v * 10 ELSE 0]

\* Point._init_tooling_hole
InitToolingHole(content, apertures, style) ==
    LET hit == IF content.t.t # "none" /\ Parses(content.t)
               THEN FirstAperture(apertures, content.t.v) ELSE 0
        own == [DefaultAperture EXCEPT
                   !.mode = "F",
                   !.radius = IF hit > 0 THEN apertures[hit].radius ELSE @]
    IN  [DefaultPoint EXCEPT
            !.ap_own = own,
            !.style = style,
            !.image = IF style = "GLOBAL" THEN 0
                      ELSE IF Parses(content.img) THEN content.img.v ELSE 1,
            !.is_test = FALSE,
            !.is_enable = FALSE,
            !.layer = 1,
            !.type = "NONE",
            !.x = IF Parses(content.x) THEN content.x.v * 10 ELSE 0,
            !.y = IF Parses(content.y) THEN content.y.v * 10 ELSE 0,
            !.fill_color = "purple"]

PointTypes == {"S", "D", "B", "P", "E"}

InitRegularPointOwnNet(content, count_of_layer, apertures, net_ref, net_image) ==
    [DefaultPoint EXCEPT
        !.style = "NORMAL",
        !.net_ref = 0,
        !.image = DefaultNet.image,
        !.count_of_layer = count_of_layer,
        !.identifier = content.ident,
        !.x = content.x * 10,
        !.y = content.y * 10]

IsEnableTopOnly(layer, count_of_layer) == layer = 1

\* self.is_enable = (self.layer == 1 or self.layer == count_of_layer)
IsEnable(layer, count_of_layer) == layer = 1 \/ layer = count_of_layer

\* Point._init_regular_point; net_ref / net_image describe  net or Net()
InitRegularPoint(content, count_of_layer, apertures, net_ref, net_image) ==
    LET apOk == Parses(content.ap)
        hit == IF apOk THEN FirstAperture(apertures, content.ap.v) ELSE 0
        layer == IF content.v.t # "none" /\ Parses(content.v) THEN content.v.v ELSE 1
        is_test == ~content.star
    IN  [DefaultPoint EXCEPT
            !.style = "NORMAL",
            !.net_ref = net_ref,
            !.image = net_image,
            !.count_of_layer = count_of_layer,
            !.identifier = content.ident,
            !.x = content.x * 10,
            !.y = content.y * 10,
            !.logic_mode = content.logic,
            !.ap_ref = hit,
            !.type = IF apOk /\ content.typ \in PointTypes THEN content.typ ELSE "NONE",
            !.layer = layer,
            !.is_enable = IsEnable(layer, count_of_layer),
            !.is_test = is_test,
            !.fill_color =
                IF layer = 1 THEN (IF is_test THEN "gold" ELSE "darkgoldenrod")
                ELSE IF layer = count_of_layer /\ count_of_layer > 1
                THEN (IF is_test THEN "green" ELSE "darkgreen")
                ELSE (IF is_test THEN "cyan" ELSE "steelblue")]

\* ------------------------------------------------------------------ ViewImage
NewViewImage == [min_x |-> 0, min_y |-> 0, max_x |-> 0, max_y |-> 0, initial |-> TRUE]

Min(a, b) == IF a <= b THEN a ELSE b
Max(a, b) == IF a >= b THEN a ELSE b

\* ViewImage.set_size
SetSize(vi, point) ==
    IF vi.initial
    THEN [min_x |-> point.x, max_x |-> point.x, min_y |-> point.y, max_y |-> point.y,
          initial |-> FALSE]
    ELSE [min_x |-> Min(point.x, vi.min_x), max_x |-> Max(point.x, vi.max_x),
          min_y |-> Min(point.y, vi.min_y), max_y |-> Max(point.y, vi.max_y),
          initial |-> FALSE]

\* while image > len(self.images) - 1: self.images.append(ViewImage()).
\* images[k] is the Python images[k]; the Python images[0] is None and is left out.
GrowImages(imgs, image) ==
    IF image > Len(imgs)
    THEN imgs \o [k \in 1..(image - Len(imgs)) |-> NewViewImage]
    ELSE imgs

\* ------------------------------------------------------------------ naming pass
RECURSIVE PanelsFromLast(_, _, _)
PanelsFromLast(steps, img, k) ==
    IF k > Len(steps) THEN <<>>
    ELSE IF steps[k].image = img THEN PanelsFromLast(steps, img, k + 1) \o <<k>>
    ELSE PanelsFromLast(steps, img, k + 1)

RECURSIVE PanelsFrom(_, _, _)
\* the panel numbers k.. of the steps that declare img, in declaration order
PanelsFrom(steps, img, k) ==
    IF k > Len(steps) THEN <<>>
    ELSE IF steps[k].image = img THEN <<k>> \o PanelsFrom(steps, img, k + 1)
    ELSE PanelsFrom(steps, img, k + 1)

\* image_usage after the loop over steps
ImageUsage(steps) ==
    [img \in {steps[k].image : k \in 1..Len(steps)} |-> PanelsFrom(steps, img, 1)]

\* panel_image_names after the loop over image_usage
PanelImageNames(usage) ==
    [key \in {<<usage[img][j], img>> : <<img, j>> \in
                 UNION {{<<i, n>> : n \in 1..Len(usage[i])} : i \in DOMAIN usage}}
        |-> Label(key[1], key[2])]

NextFreeNoSkip(next_image_id, usage) == next_image_id

\* while next_image_id in image_usage: next_image_id += 1
NextFree(next_image_id, usage) ==
    CHOOSE n \in next_image_id..(next_image_id + Cardinality(DOMAIN usage)) :
        /\ n \notin DOMAIN usage
        /\ \A m \in next_image_id..(n - 1) : m \in DOMAIN usage

RECURSIVE NamePoints(_, _, _, _, _)
\* the loop over points, from point k on
NamePoints(points, k, usage, names, next_image_id) ==
    IF k > Len(points) THEN points
    ELSE LET pt == points[k]
             unset == (pt.image = 0)
             nid == IF unset THEN NextFree(next_image_id, usage) ELSE next_image_id
             img == IF unset THEN nid ELSE pt.image
             usage2 == IF unset
                       THEN [i \in DOMAIN usage \cup {img} |->
                                IF i = img THEN <<1>> ELSE usage[i]]
                       ELSE usage
             names2 == IF unset
                       THEN [key \in DOMAIN names \cup {<<1, img>>} |->
                                IF key = <<1, img>> THEN Label(1, img) ELSE names[key]]
                       ELSE names
             panel == IF img \in DOMAIN usage2 THEN usage2[img][1] ELSE 1
             name == IF <<panel, img>> \in DOMAIN names2
                     THEN names2[<<panel, img>>] ELSE Label(panel, img)
             named == [points EXCEPT ![k] = [pt EXCEPT !.image = img,
                                                       !.panel_image_name = name]]
         IN  NamePoints(named, k + 1, usage2, names2, nid)

\* assign_panel_image_names(steps, points)
AssignPanelImageNames(steps, points) ==
    LET usage == ImageUsage(steps)
    IN  NamePoints(points, 1, usage, PanelImageNames(usage), 1)

\* ------------------------------------------------------------------ step transform
RECURSIVE ApplyOps(_, _, _, _, _, _)
\* the loop over self.operations from position k on; the layer of a mirror is
\* computed from point.layer
ApplyOps(ops, k, x, y, layer, point) ==
    IF k > Len(ops) THEN <<x, y, layer>>
    ELSE IF ops[k] = "D" THEN ApplyOps(ops, k + 1, y, -x, layer, point)
    ELSE IF ops[k] = "X"
    THEN ApplyOps(ops, k + 1, x, -y, (1 - point.layer) + point.count_of_layer, point)
    ELSE IF ops[k] = "Y"
    THEN ApplyOps(ops, k + 1, -x, y, (1 - point.layer) + point.count_of_layer, point)
    ELSE ApplyOps(ops, k + 1, x, y, layer, point)

\* LesStep.apply_transformation(point, step_index)
ApplyTransformation(st, point, step_index) ==
    LET r == ApplyOps(st.operations, 1, point.x, point.y, point.layer, point)
    IN  <<r[1] + st.offset_x + step_index * st.distance_x,
          r[2] + st.offset_y + step_index * st.distance_y,
          r[3]>>

\* ================================================================== state
VARIABLES
    \* --- Les.load_file ---
    pc,                       \* "parsing", "done" (load_file returned), "raised"
    content,                  \* the lines consumed so far (load_file never looks ahead)
    test, count_of_layer, unit, scale,
    nets, points, apertures, steps, outline_points, images,
    index_of_step,            \* <<>> is float('inf'), <<i>> the index of the last step line
    current_outline_segment,
    \* history of load_file
    handler,                  \* the handler the last line was routed to
    scale_at,                 \* scale_at[i]: self.scale when line i was read
    naming_runs,              \* calls of assign_panel_image_names so far
    \* --- LesStep.apply_transformation ---
    xf,                       \* the call: its arguments, and its result once returned
    \* --- canvas: the current XML drawing and the repeat walks over it ---
    drawing,                  \* xml_drawings[current_xml_drawing_idx].steps
    current_xml_step,
    show_xml_edges, show_xml_barcodes, show_xml_repeats,
    walk,                     \* the walk that is running: "none", "draw", "fit_all", "fit_step"
    stack,                    \* the calls of the running walk, innermost last
    painted,                  \* what the last draw_xml drew
    fit_all_run,              \* what the XML part of the last fit_all computed
    fit_step_run,             \* what the last fit_step computed
    \* --- assign_panel_image_names ---
    naming,                   \* the call: its arguments, and the points once returned
    \* --- the arc branch of compute_step_bounds ---
    arc,                      \* the call: frame and arc edge, and the bounds once returned
    \* --- arc_polyline_world_points ---
    sampling,                 \* the call: its arguments, and one sample angle once returned
    \* --- canvas: the loaded documents ---
    canvas,                   \* the fields of ViewerCanvasCore that hold or refer to documents
    called,                   \* the last operation on the canvas and what it handed back
    config,                   \* ConfigManager: the FILES section, "" where a key is absent
    \* --- canvas: the view ---
    view                      \* zoom_level, pan_offset, the widget size, the toolbar heights

xml == <<drawing, current_xml_step, show_xml_edges, show_xml_barcodes, show_xml_repeats,
         walk, stack, painted, fit_all_run, fit_step_run>>

lesVars ==
    <<pc, content, test, count_of_layer, unit, scale, nets, points, apertures, steps,
      outline_points, images, index_of_step, current_outline_segment,
      handler, scale_at, naming_runs>>

\* the calls modelled on their own
calls == <<naming, arc, sampling>>

\* the documents of the canvas
docs == <<canvas, called, config>>

vars == <<lesVars, xf, xml, calls, docs, view>>

\* ------------------------------------------------------------------ Les.__init__
LesInit ==
    /\ pc = "parsing"
    /\ content = <<>>
    /\ test = ""
    /\ count_of_layer = 0
    /\ unit = ""
    /\ scale = 10
    /\ nets = <<>>
    /\ points = <<>>
    /\ apertures = <<>>
    /\ steps = <<>>
    /\ outline_points = <<>>
    /\ images = <<NewViewImage>>
    /\ index_of_step = <<>>
    /\ current_outline_segment = <<>>
    /\ handler = ""
    /\ scale_at = <<>>
    /\ naming_runs = 0

\* ------------------------------------------------------------------ classifier
\* the if / continue chain of the loop body of load_file, in source order
ClassifyMarkerLast(line) ==
    IF line.k = "blank" THEN "blank"
    ELSE IF line.k = "layer" THEN "layer"
    ELSE IF line.k = "unit" THEN "unit"
    ELSE IF line.k = "outline" THEN "outline"
    ELSE IF line.k = "tooling" THEN "tooling"
    ELSE IF line.k = "aperture" THEN "aperture"
    ELSE IF line.k = "step" THEN "step"
    ELSE IF line.k = "net" THEN "net"
    ELSE IF line.k = "point" THEN "point"
    ELSE IF line.atfh THEN "test"
    ELSE "ignored"

Classify(line) ==
    IF line.k = "blank" THEN "blank"
    ELSE IF line.atfh THEN "test"
    ELSE IF line.k = "layer" THEN "layer"
    ELSE IF line.k = "unit" THEN "unit"
    ELSE IF line.k = "outline" THEN "outline"
    ELSE IF line.k = "tooling" THEN "tooling"
    ELSE IF line.k = "aperture" THEN "aperture"
    ELSE IF line.k = "step" THEN "step"
    ELSE IF line.k = "net" THEN "net"
    ELSE IF line.k = "point" THEN "point"
    ELSE "ignored"

\* one iteration of  for i, raw in enumerate(self.content)  that reaches handler h
Read(line, h) ==
    /\ pc = "parsing"
    /\ Len(content) < MaxLines
    /\ Classify(line) = h
    /\ content' = Append(content, line)
    /\ scale_at' = Append(scale_at, scale)
    /\ handler' = h
    /\ UNCHANGED <<naming_runs, xf, xml, calls, docs, view>>

\* the scale a UNIT directive sets
UnitScale(line) ==
    LET res == IF Parses(line.res) THEN line.res.v ELSE 1
    IN  IF line.unit = "INCH" THEN (IF res # 0 THEN 254 \div res ELSE 10)
        ELSE IF line.unit = "MM" THEN (IF res # 0 THEN 10 \div res ELSE 10)
        ELSE 10

\* the vertex of an outline line before scaling:
\*   work = line[2:].rstrip(','); coord = work.split('T', 1)[0]
\*   xs, ys = coord.split('Y', 1); x = float(xs.replace('X', '')); y = float(ys)
\* ys keeps the comma that stands before T, and then  except Exception: x = y = 0.0
OutlineXY(line) ==
    LET xs == Num(line.x)
        ys == IF line.tsep = ",T" THEN Bad ELSE Num(line.y)
    IN  IF Parses(xs) /\ Parses(ys) THEN <<xs.v * 10, ys.v * 10>> ELSE <<0, 0>>

\* ------------------------------------------------------------------ handlers
\* if not line: continue
SkipBlank ==
    \E line \in Lines :
        /\ Read(line, "blank")
        /\ UNCHANGED <<pc, test, count_of_layer, unit, scale, nets, points, apertures,
                       steps, outline_points, images, index_of_step,
                       current_outline_segment>>

\* if "#ATFH" in line
TestName ==
    \E line \in Lines :
        /\ Read(line, "test")
        /\ test' = IF line.nparts > 1 THEN line.seg2 ELSE test
        /\ UNCHANGED <<pc, count_of_layer, unit, scale, nets, points, apertures,
                       steps, outline_points, images, index_of_step,
                       current_outline_segment>>

\* layer_pattern
LayerCount ==
    \E line \in Lines :
        /\ Read(line, "layer")
        /\ count_of_layer' = line.n
        /\ images' = IF Len(images) < 1 THEN <<NewViewImage>> ELSE images
        /\ UNCHANGED <<pc, test, unit, scale, nets, points, apertures,
                       steps, outline_points, index_of_step,
                       current_outline_segment>>

\* line.startswith('UNIT')
UnitDirective ==
    \E line \in Lines :
        /\ Read(line, "unit")
        /\ unit' = IF line.nparts >= 3 THEN line.unit ELSE unit
        /\ scale' = IF line.nparts >= 3 THEN UnitScale(line) ELSE scale
        /\ UNCHANGED <<pc, test, count_of_layer, nets, points, apertures,
                       steps, outline_points, images, index_of_step,
                       current_outline_segment>>

\* outline_pattern
OutlineVertex ==
    \E line \in Lines :
        /\ Read(line, "outline")
        /\ LET xy == OutlineXY(line)
               seg == Append(current_outline_segment,
                             <<Scaled(xy[1], scale), Scaled(xy[2], scale)>>)
           IN  IF ~line.comma
               THEN /\ outline_points' = Append(outline_points, seg)
                    /\ current_outline_segment' = <<>>
               ELSE /\ outline_points' = outline_points
                    /\ current_outline_segment' = seg
        /\ UNCHANGED <<pc, test, count_of_layer, unit, scale, nets, points, apertures,
                       steps, images, index_of_step>>

\* tooling_pattern:  i < index_of_step  holds until a step line has been read
ToolingHole ==
    \E line \in Lines :
        /\ Read(line, "tooling")
        /\ LET style == IF index_of_step = <<>> \/ Len(content) + 1 < index_of_step[1]
                        THEN "GLOBAL" ELSE "LOCAL"
               p == InitToolingHole(line, apertures, style)
           IN  points' = Append(points, [p EXCEPT !.line = Len(content) + 1,
                                                  !.x = Scaled(@, scale),
                                                  !.y = Scaled(@, scale)])
        /\ UNCHANGED <<pc, test, count_of_layer, unit, scale, nets, apertures,
                       steps, outline_points, images, index_of_step,
                       current_outline_segment>>

\* aperture_pattern
ApertureDef ==
    \E line \in Lines :
        /\ Read(line, "aperture")
        /\ LET r == Aperture(line)
           IN  IF r.raised
               THEN /\ pc' = "raised"
                    /\ apertures' = apertures
               ELSE /\ pc' = pc
                    /\ apertures' = Append(apertures, ApplyScaleToAperture(r.ap, scale))
        /\ UNCHANGED <<test, count_of_layer, unit, scale, nets, points,
                       steps, outline_points, images, index_of_step,
                       current_outline_segment>>

\* step_pattern
StepDef ==
    \E line \in Lines :
        /\ Read(line, "step")
        /\ LET r == LesStep(line)
           IN  IF r.raised
               THEN /\ pc' = "raised"
                    /\ steps' = steps
                    /\ index_of_step' = index_of_step
               ELSE /\ pc' = pc
                    /\ steps' = Append(steps, ScaleValues(r.st, scale))
                    /\ index_of_step' = <<Len(content) + 1>>
        /\ UNCHANGED <<test, count_of_layer, unit, scale, nets, points, apertures,
                       outline_points, images, current_outline_segment>>

\* line.startswith('@') and '!' not in line
NetHeader ==
    \E line \in Lines :
        /\ Read(line, "net")
        /\ LET net == Net(line)
           IN  /\ nets' = Append(nets, net)
               /\ images' = GrowImages(images, net.image)
        /\ UNCHANGED <<pc, test, count_of_layer, unit, scale, points, apertures,
                       steps, outline_points, index_of_step,
                       current_outline_segment>>

\* point_pattern
RegularPoint ==
    \E line \in Lines :
        /\ Read(line, "point")
        /\ LET net_ref == Len(nets)
               net_image == IF nets # <<>> THEN nets[Len(nets)].image ELSE DefaultNet.image
               p == InitRegularPoint(line, count_of_layer, apertures, net_ref, net_image)
               pt == [p EXCEPT !.line = Len(content) + 1,
                               !.x = Scaled(@, scale), !.y = Scaled(@, scale)]
               grown == GrowImages(images, pt.image)
           IN  /\ points' = Append(points, pt)
               /\ nets' = IF nets # <<>>
                          THEN [nets EXCEPT ![Len(nets)].points = Append(@, Len(points) + 1)]
                          ELSE nets
               /\ images' = IF pt.image >= 1 /\ pt.image <= Len(grown)
                            THEN [grown EXCEPT ![pt.image] = SetSize(@, pt)]
                            ELSE grown
        /\ UNCHANGED <<pc, test, count_of_layer, unit, scale, apertures,
                       steps, outline_points, index_of_step,
                       current_outline_segment>>

\* a line that matches no shape falls through the loop body
IgnoreLine ==
    \E line \in Lines :
        /\ Read(line, "ignored")
        /\ UNCHANGED <<pc, test, count_of_layer, unit, scale, nets, points, apertures,
                       steps, outline_points, images, index_of_step,
                       current_outline_segment>>

\* after the loop: the flush of an open segment, and with it the naming pass;
\* the local current_outline_segment ends with the call
EndOfFile ==
    /\ pc = "parsing"
    /\ pc' = "done"
    /\ handler' = "eof"
    /\ current_outline_segment' = <<>>
    /\ IF current_outline_segment # <<>>
       THEN /\ outline_points' = Append(outline_points, current_outline_segment)
            /\ points' = AssignPanelImageNames(steps, points)
            /\ naming_runs' = naming_runs + 1
       ELSE /\ outline_points' = outline_points
            /\ points' = points
            /\ naming_runs' = naming_runs
    /\ UNCHANGED <<content, scale_at, test, count_of_layer, unit, scale, nets, apertures,
                   steps, images, index_of_step, xf, xml, calls, docs, view>>

LoadFile ==
    \/ SkipBlank
    \/ TestName
    \/ LayerCount
    \/ UnitDirective
    \/ OutlineVertex
    \/ ToolingHole
    \/ ApertureDef
    \/ StepDef
    \/ NetHeader
    \/ RegularPoint
    \/ IgnoreLine
    \/ EndOfFile

\* ================================================================== step transform
\* longest operator chain, largest repetition index
MaxOps == 3
MaxStepIndex == 1

RECURSIVE Chains(_)
\* the operator chains of length <= n over D, X, Y
Chains(n) ==
    IF n = 0 THEN {<<>>}
    ELSE Chains(n - 1) \cup {Append(c, op) : c \in Chains(n - 1), op \in {"D", "X", "Y"}}

XfIdle == xf = [phase |-> "idle"]

\* a step, a point of a two- or three-layer board, a repetition index
XfInit ==
    xf \in [phase : {"call"},
            st : {[DefaultLesStep EXCEPT !.operations = c, !.amount = MaxStepIndex + 1,
                                         !.offset_x = 10, !.offset_y = -20,
                                         !.distance_x = 30, !.distance_y = 40]
                     : c \in Chains(MaxOps)},
            point : {[DefaultPoint EXCEPT !.x = x, !.y = 50, !.layer = cl[1],
                                          !.count_of_layer = cl[2]]
                       : x \in {-20, 70}, cl \in {<<1, 2>>, <<2, 2>>, <<1, 3>>, <<2, 3>>}},
            step_index : 0..MaxStepIndex]

\* x, y, layer = st.apply_transformation(p, i)
CallApplyTransformation ==
    /\ xf.phase = "call"
    /\ xf' = [phase |-> "return", st |-> xf.st, point |-> xf.point,
              step_index |-> xf.step_index,
              result |-> ApplyTransformation(xf.st, xf.point, xf.step_index)]
    /\ UNCHANGED <<lesVars, xml, calls, docs, view>>

\* ================================================================== naming pass on its own
\* most steps and points of a call, largest image id written in the file
MaxNamingSteps == 3
MaxNamingPoints == 2
MaxImage == 2

RECURSIVE Seqs(_, _)
\* the sequences of length <= n over S
Seqs(S, n) ==
    IF n = 0 THEN {<<>>}
    ELSE Seqs(S, n - 1) \cup {Append(q, e) : q \in Seqs(S, n - 1), e \in S}

NamingIdle == naming = [phase |-> "idle"]

\* steps and points as load_file hands them over: each step with the image of
\* its line, each point with the image of its net or 0 (a Global tooling hole)
NamingInit ==
    naming \in
        [phase : {"call"},
         steps : {[k \in 1..Len(q) |-> [DefaultLesStep EXCEPT !.image = q[k]]]
                    : q \in Seqs(0..MaxImage, MaxNamingSteps)},
         points : {[k \in 1..Len(q) |-> [DefaultPoint EXCEPT !.image = q[k]]]
                     : q \in Seqs(0..MaxImage + 1, MaxNamingPoints) \ {<<>>}}]

\* assign_panel_image_names(steps, points)
CallAssignPanelImageNames ==
    /\ naming.phase = "call"
    /\ naming' = [phase |-> "return", steps |-> naming.steps, points |-> naming.points,
                  result |-> AssignPanelImageNames(naming.steps, naming.points)]
    /\ UNCHANGED <<lesVars, xf, xml, arc, sampling, docs, view>>

\* ================================================================== view: zoom and pan
\* zoom_level and pan_offset are floats: kept as fractions <<numerator, denominator>>
\* in lowest terms with a positive denominator, so that signs and zeros are exact
RECURSIVE GCD(_, _)
GCD(a, b) == IF b = 0 THEN a ELSE GCD(b, a % b)
Abs(a) == IF a < 0 THEN -a ELSE a
Frac(n, d) ==
    LET g == GCD(Abs(n), Abs(d))
        s == IF d < 0 THEN -1 ELSE 1
    IN  <<(s * n) \div g, (s * d) \div g>>
Whole(i) == <<i, 1>>
\* products and sums cancel common factors first, to keep the terms small
FMul(a, b) ==
    LET g == GCD(Abs(a[1]), b[2])
        k == GCD(Abs(b[1]), a[2])
    IN  Frac((a[1] \div g) * (b[1] \div k), (a[2] \div k) * (b[2] \div g))
FDiv(a, b) == FMul(a, Frac(b[2], b[1]))
FAdd(a, b) ==
    LET g == GCD(a[2], b[2])
    IN  Frac(a[1] * (b[2] \div g) + b[1] * (a[2] \div g), (a[2] \div g) * b[2])
FSub(a, b) == FAdd(a, <<-b[1], b[2]>>)
FLess(a, b) == a[1] * b[2] < b[1] * a[2]
FMin(a, b) == IF FLess(b, a) THEN b ELSE a

\* ViewerCanvasCore.__init__: the view state; w and h are _w and _h; wheel_events is
\* history, the wheel events taken so far
ViewInit ==
    [zoom_level |-> Whole(1), pan_offset |-> <<Whole(0), Whole(0)>>,
     w |-> 1200, h |-> 800, toolbar_height |-> 0, xml_toolbar_height |-> 0,
     wheel_events |-> 0]

\* reset_xml_view(canvas) past its guard, for a drawing of the given width and height
ResetXmlView(v, width, height) ==
    LET top == v.toolbar_height + v.xml_toolbar_height
        w   == v.w
        h   == v.h - top
    IN  IF width <= 0 \/ height <= 0
        THEN [v EXCEPT !.zoom_level = Whole(1),
                       !.pan_offset = <<Frac(w - 400, 2), FAdd(Frac(h - 300, 2), Whole(top))>>]
        ELSE LET z == FMul(FMin(Frac(w, width), Frac(h, height)), Frac(8, 10))
             IN  [v EXCEPT !.zoom_level = z,
                           !.pan_offset =
                               <<FDiv(FSub(Whole(w), FMul(Whole(width), z)), Whole(2)),
                                 FAdd(FDiv(FSub(Whole(h), FMul(Whole(height), z)), Whole(2)),
                                      Whole(top))>>]

\* ViewerCanvasCore._fit_world_bounds(minx, miny, maxx, maxy, padding)
FitWorldBounds(v, b, padding) ==
    LET bw      == b[3] - b[1]
        bh      == b[4] - b[2]
        avail_w == v.w - 2 * padding
        top_y   == v.toolbar_height + v.xml_toolbar_height
        avail_h == v.h - top_y - 2 * padding
    IN  IF bw <= 0 \/ bh <= 0 THEN v
        ELSE IF avail_w <= 0 \/ avail_h <= 0 THEN v
        ELSE LET z  == FMin(Frac(avail_w, bw), Frac(avail_h, bh))
                 cx == Frac(b[1] + b[3], 2)
                 cy == Frac(b[2] + b[4], 2)
             IN  [v EXCEPT !.zoom_level = z,
                           !.pan_offset =
                               <<FSub(Frac(v.w, 2), FMul(cx, z)),
                                 FSub(FAdd(Whole(top_y), Frac(v.h - top_y, 2)), FMul(cy, z))>>]

\* _fit_world_bounds(canvas, minx, miny, maxx, maxy, padding) of xml_drawing: after
\* canvas.zoom_level is assigned, `self.zoom_level` names no variable: NameError
XmlFitWorldBounds(v, b, padding) ==
    LET bw      == b[3] - b[1]
        bh      == b[4] - b[2]
        avail_w == v.w - 2 * padding
        avail_h == v.h - (v.toolbar_height + v.xml_toolbar_height) - 2 * padding
    IN  IF bw <= 0 \/ bh <= 0 THEN [raised |-> FALSE, view |-> v]
        ELSE IF avail_w <= 0 \/ avail_h <= 0 THEN [raised |-> FALSE, view |-> v]
        ELSE [raised |-> TRUE,
              view |-> [v EXCEPT !.zoom_level =
                                    FMin(Frac(avail_w, bw), Frac(avail_h, bh))]]

\* auto_zoom(canvas) past `if not ld`; b is <<min_x, min_y, max_x, max_y>> of xs and
\* ys, <<>> when xs is empty
AutoZoom(v, b) ==
    IF b = <<>> THEN v
    ELSE LET bw == b[3] - b[1]
             bh == b[4] - b[2]
         IN  IF bw = 0 \/ bh = 0 THEN v
             ELSE LET top_y == v.toolbar_height + v.xml_toolbar_height
                      zx    == Frac(v.w - 100, bw)
                      zy    == Frac(v.h - 100 - top_y, bh)
                      z     == FMul(FMin(zx, zy), Frac(9, 10))
                      cx    == Frac(b[1] + b[3], 2)
                      cy    == Frac(b[2] + b[4], 2)
                  IN  [v EXCEPT !.zoom_level = z,
                                !.pan_offset =
                                    <<FSub(Frac(v.w, 2), FMul(cx, z)),
                                      FSub(FAdd(Whole(top_y), Frac(v.h - top_y, 2)),
                                           FMul(cy, z))>>]

\* ViewerCanvas.wheelEvent with a non-zero angle delta at the screen point (mx, my);
\* screen_to_world divides by zoom_level
WheelEvent(v, up, mx, my) ==
    IF v.zoom_level[1] = 0
    THEN [raised |-> TRUE, view |-> v]
    ELSE LET wx     == FDiv(FSub(Whole(mx), v.pan_offset[1]), v.zoom_level)
             wy     == FDiv(FSub(Whole(my), v.pan_offset[2]), v.zoom_level)
             factor == IF up THEN Frac(11, 10) ELSE Frac(10, 11)
             z      == FMul(v.zoom_level, factor)
         IN  [raised |-> FALSE,
              view |-> [v EXCEPT !.zoom_level = z,
                                 !.pan_offset = <<FSub(Whole(mx), FMul(wx, z)),
                                                  FSub(Whole(my), FMul(wy, z))>>,
                                 !.wheel_events = @ + 1]]

\* ViewerCanvasCore.resizeEvent
ResizeEvent(v, width, height) == [v EXCEPT !.w = width, !.h = height]

\* MainWindow._sync_toolbar_heights: the toolbar is shown, its size hint is 30 high
SyncToolbarHeights(v) == [v EXCEPT !.toolbar_height = 30, !.xml_toolbar_height = 0]

\* the view of a canvas in a window of the default size
ViewIdle == view = SyncToolbarHeights(ViewInit)

\* widget sizes: the default, and one smaller than the padding of the fits
WidgetSizes == {<<1200, 800>>, <<90, 60>>}

\* the view after the window was sized
ViewSized ==
    view \in {ResizeEvent(SyncToolbarHeights(ViewInit), s[1], s[2]) : s \in WidgetSizes}

\* ================================================================== XML repeat walks
\* an XML drawing: steps by name (names are numbers here), each with its edges,
\* repeats and layers of barcodes
LineEdge(xs, ys, xe, ye) == [type |-> "line", xs |-> xs, ys |-> ys, xe |-> xe, ye |-> ye]
Repeat(step, x, y, angle) == [step |-> step, x |-> x, y |-> y, angle |-> angle]
Barcode(x, y, width, height) == [x |-> x, y |-> y, width |-> width, height |-> height]
Layer(barcodes) == [barcode_list |-> barcodes]
Step(name, x, y, edges, repeats, layers) ==
    [name |-> name, x |-> x, y |-> y, edges |-> edges, repeats |-> repeats, layers |-> layers]

\* length of the chain drawing: one step more than two past the cap
ChainLength == 53

\* a panel with two placements of a set, a repeat of a step that does not exist,
\* and a piece inside the set
DrawingTree ==
    [n \in 1..3 |->
        IF n = 1
        THEN Step(1, 1, 2, <<LineEdge(0, 0, 10, 0)>>,
                  <<Repeat(2, 5, 5, 90), Repeat(9, 1, 1, 0), Repeat(2, 0, 3, 180)>>,
                  <<Layer(<<Barcode(2, 2, 3, 1)>>)>>)
        ELSE IF n = 2
        THEN Step(2, 0, 0, <<LineEdge(0, 0, 1, 0)>>, <<Repeat(3, 1, 0, 270)>>,
                  <<Layer(<<>>), Layer(<<Barcode(-1, 4, 2, 2)>>)>>)
        ELSE Step(3, 0, 0, <<LineEdge(0, 0, 0, 2), LineEdge(0, 2, 2, 2)>>, <<>>, <<>>)]
\* a step that repeats itself
DrawingSelf ==
    [n \in 1..1 |-> Step(1, 0, 0, <<LineEdge(0, 0, 1, 0)>>, <<Repeat(1, 1, 0, 90)>>, <<>>)]
\* two steps that repeat each other
DrawingLoop ==
    [n \in 1..2 |->
        Step(n, 0, 0, <<LineEdge(0, 0, 1, 1)>>, <<Repeat(3 - n, 2, 0, 180)>>,
             <<Layer(<<Barcode(0, 0, 1, 1)>>)>>)]
\* an acyclic chain, step n repeating step n + 1
DrawingChain ==
    [n \in 1..ChainLength |->
        Step(n, 0, 0, <<LineEdge(0, 0, 1, 0)>>,
             IF n < ChainLength THEN <<Repeat(n + 1, 1, 0, 90)>> ELSE <<>>, <<>>)]
\* a step without content
DrawingEmpty == [n \in 1..1 |-> Step(1, 3, 3, <<>>, <<>>, <<>>)]

\* a step whose first repeat names a step the file does not have
DrawingLost ==
    [n \in 1..2 |->
        IF n = 1
        THEN Step(1, 0, 0, <<LineEdge(0, 0, 4, 0)>>,
                  <<Repeat(9, 2, 2, 90), Repeat(2, 1, 3, 90)>>, <<>>)
        ELSE Step(2, 0, 0, <<LineEdge(0, 0, 0, 2)>>, <<>>, <<>>)]

\* Drawing.width and Drawing.height: the file of DrawingEmpty gives none
DrawingSize(d) == IF d = DrawingEmpty THEN <<0, 0>> ELSE <<400, 300>>

Drawings == {DrawingTree, DrawingSelf, DrawingLoop, DrawingChain, DrawingEmpty, DrawingLost}

\* cos and sin of a multiple of 90 degrees
CosDeg(a) == LET m == a % 360 IN IF m = 0 THEN 1 ELSE IF m = 180 THEN -1 ELSE 0
SinDeg(a) == LET m == a % 360 IN IF m = 90 THEN 1 ELSE IF m = 270 THEN -1 ELSE 0

RotateTranslateNoRotation(x, y, angle, off_x, off_y) == <<x + off_x, y + off_y>>

\* rotate_translate(x, y, angle_rad, off_x, off_y), the angle given in degrees
RotateTranslate(x, y, angle, off_x, off_y) ==
    <<x * CosDeg(angle) - y * SinDeg(angle) + off_x,
      y * CosDeg(angle) + x * SinDeg(angle) + off_y>>

RECURSIVE FlattenBarcodes(_)
\* for layer in step.layers: for bc in layer.barcode_list
FlattenBarcodes(layers) ==
    IF layers = <<>> THEN <<>>
    ELSE Head(layers).barcode_list \o FlattenBarcodes(Tail(layers))

\* One call of a walk on the stack: its arguments, and k, the repeat its loop
\* over step.repeats is at.
Call(step, base_angle_deg, off_x, off_y, color, depth) ==
    [step |-> step, base_angle_deg |-> base_angle_deg, off_x |-> off_x, off_y |-> off_y,
     color |-> color, depth |-> depth, k |-> 1]

Top == stack[Len(stack)]
NextRepeatBreak == [stack EXCEPT ![Len(stack)].k = Len(drawing[stack[Len(stack)].step].repeats) + 1]
\* the loop over repeats of the running call moves on
NextRepeat == [stack EXCEPT ![Len(stack)].k = @ + 1]
\* the repeat the running call is at, and the frame of the step it places
ThisRepeat == drawing[Top.step].repeats[Top.k]
RepeatAnchor ==
    RotateTranslate(ThisRepeat.x, ThisRepeat.y, -Top.base_angle_deg, Top.off_x, Top.off_y)

\* what a walk records of a call whose body runs: the frame, the depth argument
\* it got, and the number of calls of the walk on the stack
Frame(call, level) ==
    [step |-> call.step, angle |-> call.base_angle_deg, off_x |-> call.off_x,
     off_y |-> call.off_y, depth |-> call.depth, level |-> level]

\* --- the draw walk ---
NotRun == [ran |-> FALSE]
DrawStart == [ran |-> TRUE, err |-> FALSE, frames |-> <<>>, lines |-> <<>>, rects |-> <<>>]

\* the edges branch of _draw_xml_step_recursive: the world segments drawn
DrawEdges(step, angle, off_x, off_y) ==
    [k \in 1..Len(step.edges) |->
        RotateTranslate(step.edges[k].xs, step.edges[k].ys, angle, off_x, off_y)
            \o RotateTranslate(step.edges[k].xe, step.edges[k].ye, angle, off_x, off_y)]

\* the barcodes branch: anchor transformed, width and height as they are
DrawBarcodes(step, angle, off_x, off_y) ==
    LET bcs == FlattenBarcodes(step.layers)
    IN  [k \in 1..Len(bcs) |->
            RotateTranslate(bcs[k].x, bcs[k].y, angle, off_x, off_y)
                \o <<bcs[k].width, bcs[k].height>>]

\* the body of _draw_xml_step_recursive up to its loop over repeats, for a call
\* that passed  if depth > 50: return
DrawBody(acc, call, level) ==
    LET step == drawing[call.step]
        angle == -call.base_angle_deg
    IN  [acc EXCEPT
            !.frames = Append(@, Frame(call, level)),
            !.lines = IF show_xml_edges
                      THEN @ \o DrawEdges(step, angle, call.off_x, call.off_y)
                      ELSE @,
            !.rects = IF show_xml_barcodes
                      THEN @ \o DrawBarcodes(step, angle, call.off_x, call.off_y)
                      ELSE @]

\* the recursive call of line 141:
\*   _draw_xml_step_recursive(canvas, qp, sub, base_angle_deg + rpt.angle, rx, ry, depth + 1)
\* seven positional arguments, so depth + 1 is bound to color and depth takes
\* its default 0
DrawRecursiveCall(caller, rpt, r) ==
    Call(rpt.step, caller.base_angle_deg + rpt.angle, r[1], r[2], caller.depth + 1, 0)

\* --- the bounds walks ---
\* bounds = [inf, inf, -inf, -inf] is <<>>
NoBounds == <<>>
\* ended: how the function ended once the walk was through ("no" until then)
BoundsStart ==
    [ran |-> TRUE, err |-> FALSE, frames |-> <<>>, bounds |-> NoBounds, ended |-> "no"]

AddBoundsMinOnly(bounds, b) ==
    IF bounds = NoBounds THEN <<b[1], b[2], b[1], b[2]>>
    ELSE <<Min(bounds[1], b[1]), Min(bounds[2], b[2]), bounds[3], bounds[4]>>

\* add_bounds(b)
AddBounds(bounds, b) ==
    IF bounds = NoBounds THEN b
    ELSE <<Min(bounds[1], b[1]), Min(bounds[2], b[2]),
           Max(bounds[3], b[3]), Max(bounds[4], b[4])>>

RECURSIVE EdgeBounds(_, _, _, _, _, _)
\* for e in st.edges, from edge k on
EdgeBounds(bounds, st, k, ang, off_x, off_y) ==
    IF k > Len(st.edges) THEN bounds
    ELSE LET e == st.edges[k]
             s == RotateTranslate(e.xs, e.ys, ang, off_x, off_y)
             t == RotateTranslate(e.xe, e.ye, ang, off_x, off_y)
         IN  EdgeBounds(AddBounds(bounds, <<Min(s[1], t[1]), Min(s[2], t[2]),
                                            Max(s[1], t[1]), Max(s[2], t[2])>>),
                        st, k + 1, ang, off_x, off_y)

RECURSIVE BarcodeBounds(_, _, _, _, _, _)
\* for bc in layer.barcode_list, over the layers, from barcode k on
BarcodeBounds(bounds, bcs, k, ang, off_x, off_y) ==
    IF k > Len(bcs) THEN bounds
    ELSE LET b == RotateTranslate(bcs[k].x, bcs[k].y, ang, off_x, off_y)
         IN  BarcodeBounds(AddBounds(bounds, <<b[1], b[2], b[1] + bcs[k].width,
                                               b[2] + bcs[k].height>>),
                           bcs, k + 1, ang, off_x, off_y)

\* the body of compute_step_bounds up to its loop over repeats; no test of depth
ComputeBody(acc, call, level) ==
    LET st == drawing[call.step]
        ang == -call.base_angle_deg
        b1 == IF show_xml_edges
              THEN EdgeBounds(acc.bounds, st, 1, ang, call.off_x, call.off_y)
              ELSE acc.bounds
        b2 == IF show_xml_barcodes
              THEN BarcodeBounds(b1, FlattenBarcodes(st.layers), 1, ang, call.off_x, call.off_y)
              ELSE b1
    IN  [acc EXCEPT !.frames = Append(@, Frame(call, level)), !.bounds = b2]

\* compute_step_bounds(sub, base_angle_deg + rpt.angle, rx, ry, depth + 1)
ComputeRecursiveCall(caller, rpt, r) ==
    Call(rpt.step, caller.base_angle_deg + rpt.angle, r[1], r[2], 0, caller.depth + 1)

\* --- canvas ---
XmlIdle ==
    /\ drawing = DrawingEmpty
    /\ current_xml_step = 1
    /\ show_xml_edges = TRUE
    /\ show_xml_barcodes = TRUE
    /\ show_xml_repeats = TRUE
    /\ walk = "none"
    /\ stack = <<>>
    /\ painted = NotRun
    /\ fit_all_run = NotRun
    /\ fit_step_run = NotRun

\* a drawing is loaded, one of its steps is current, the side panel has set the flags
XmlInit ==
    /\ drawing \in Drawings
    /\ current_xml_step \in (DOMAIN drawing) \cap 1..2
    /\ show_xml_edges \in BOOLEAN
    /\ show_xml_barcodes \in BOOLEAN
    /\ show_xml_repeats \in BOOLEAN
    /\ walk = "none"
    /\ stack = <<>>
    /\ painted = NotRun
    /\ fit_all_run = NotRun
    /\ fit_step_run = NotRun

canvasFlags == <<drawing, current_xml_step, show_xml_edges, show_xml_barcodes, show_xml_repeats>>

\* draw_xml(canvas, qp): the root call
\*   _draw_xml_step_recursive(canvas, qp, step, 0, -step.x, -step.y, 0)
DrawXml ==
    /\ walk = "none"
    /\ current_xml_step \in DOMAIN drawing
    /\ LET step == drawing[current_xml_step]
           root == Call(current_xml_step, 0, -step.x, -step.y, 0, 0)
       IN  /\ stack' = <<root>>
           /\ painted' = DrawBody(DrawStart, root, 1)
    /\ walk' = "draw"
    /\ UNCHANGED <<lesVars, xf, calls, docs, view, canvasFlags, fit_all_run, fit_step_run>>

\* one turn of  for rpt in step.repeats  of the running call of the draw walk
DrawRepeat ==
    /\ walk = "draw"
    /\ show_xml_repeats
    /\ Top.k <= Len(drawing[Top.step].repeats)
    /\ IF ThisRepeat.step \notin DOMAIN drawing
       THEN /\ stack' = NextRepeat
            /\ UNCHANGED <<walk, painted>>
       ELSE IF Len(stack) + 1 > MaxCallDepth
       THEN /\ stack' = <<>>
            /\ walk' = "none"
            /\ painted' = [painted EXCEPT !.err = TRUE]
       ELSE LET sub == DrawRecursiveCall(Top, ThisRepeat, RepeatAnchor)
            IN  IF sub.depth > 50
                THEN /\ stack' = NextRepeat
                     /\ UNCHANGED <<walk, painted>>
                ELSE /\ stack' = Append(NextRepeat, sub)
                     /\ painted' = DrawBody(painted, sub, Len(stack) + 1)
                     /\ walk' = walk
    /\ UNCHANGED <<lesVars, xf, calls, docs, view, canvasFlags, fit_all_run, fit_step_run>>

\* the running call of the draw walk returns
DrawReturn ==
    /\ walk = "draw"
    /\ ~(show_xml_repeats /\ Top.k <= Len(drawing[Top.step].repeats))
    /\ stack' = SubSeq(stack, 1, Len(stack) - 1)
    /\ walk' = IF Len(stack) = 1 THEN "none" ELSE walk
    /\ UNCHANGED <<lesVars, xf, calls, docs, view, canvasFlags, painted, fit_all_run, fit_step_run>>

\* fit_all(), its XML part: compute_step_bounds(step, 0, -step.x, -step.y, 0)
FitAll ==
    /\ walk = "none"
    /\ current_xml_step \in DOMAIN drawing
    /\ LET step == drawing[current_xml_step]
           root == Call(current_xml_step, 0, -step.x, -step.y, 0, 0)
       IN  /\ stack' = <<root>>
           /\ fit_all_run' = ComputeBody(BoundsStart, root, 1)
    /\ walk' = "fit_all"
    /\ UNCHANGED <<lesVars, xf, calls, docs, view, canvasFlags, painted, fit_step_run>>

\* one turn of  for rpt in st.repeats  of compute_step_bounds in fit_all
FitAllRepeat ==
    /\ walk = "fit_all"
    /\ show_xml_repeats
    /\ Top.k <= Len(drawing[Top.step].repeats)
    /\ IF ThisRepeat.step \notin DOMAIN drawing
       THEN /\ stack' = NextRepeat
            /\ UNCHANGED <<walk, fit_all_run>>
       ELSE IF Len(stack) + 1 > MaxCallDepth
       THEN /\ stack' = <<>>
            /\ walk' = "none"
            /\ fit_all_run' = [fit_all_run EXCEPT !.err = TRUE]
       ELSE LET sub == ComputeRecursiveCall(Top, ThisRepeat, RepeatAnchor)
            IN  /\ stack' = Append(NextRepeat, sub)
                /\ fit_all_run' = ComputeBody(fit_all_run, sub, Len(stack) + 1)
                /\ walk' = walk
    /\ UNCHANGED <<lesVars, xf, calls, docs, view, canvasFlags, painted, fit_step_run>>

\* the running call of compute_step_bounds in fit_all returns
FitAllReturn ==
    /\ walk = "fit_all"
    /\ ~(show_xml_repeats /\ Top.k <= Len(drawing[Top.step].repeats))
    /\ stack' = SubSeq(stack, 1, Len(stack) - 1)
    /\ walk' = IF Len(stack) = 1 THEN "none" ELSE walk
    \* the root call has returned: the rest of fit_all (no LES document is loaded)
    /\ IF Len(stack) = 1
       THEN LET b == fit_all_run.bounds
                any_bounds == b # NoBounds
            IN  /\ view' = IF any_bounds /\ b[3] > b[1] /\ b[4] > b[2]
                           THEN FitWorldBounds(view, b, 50)
                           ELSE view
                /\ fit_all_run' = [fit_all_run EXCEPT !.ended = "returned"]
       ELSE UNCHANGED <<view, fit_all_run>>
    /\ UNCHANGED <<lesVars, xf, calls, docs, canvasFlags, painted, fit_step_run>>

\* fit_step(canvas, include_repeats): compute_step_bounds(step, 0, -step.x, -step.y, 0)
FitStep ==
    \E include_repeats \in BOOLEAN :
        /\ walk = "none"
        /\ current_xml_step \in DOMAIN drawing
        /\ LET step == drawing[current_xml_step]
               root == Call(current_xml_step, 0, -step.x, -step.y, 0, 0)
           IN  /\ stack' = <<root>>
               /\ fit_step_run' =
                      [ComputeBody(BoundsStart, root, 1) EXCEPT !.ran = TRUE]
                          @@ [include_repeats |-> include_repeats]
        /\ walk' = "fit_step"
        /\ UNCHANGED <<lesVars, xf, calls, docs, view, canvasFlags, painted, fit_all_run>>

\* one turn of  for rpt in st.repeats  of compute_step_bounds in fit_step
FitStepRepeat ==
    /\ walk = "fit_step"
    /\ fit_step_run.include_repeats /\ show_xml_repeats
    /\ Top.k <= Len(drawing[Top.step].repeats)
    /\ IF ThisRepeat.step \notin DOMAIN drawing
       THEN /\ stack' = NextRepeat
            /\ UNCHANGED <<walk, fit_step_run>>
       ELSE IF Len(stack) + 1 > MaxCallDepth
       THEN /\ stack' = <<>>
            /\ walk' = "none"
            /\ fit_step_run' = [fit_step_run EXCEPT !.err = TRUE]
       ELSE LET sub == ComputeRecursiveCall(Top, ThisRepeat, RepeatAnchor)
            IN  /\ stack' = Append(NextRepeat, sub)
                /\ fit_step_run' = ComputeBody(fit_step_run, sub, Len(stack) + 1)
                /\ walk' = walk
    /\ UNCHANGED <<lesVars, xf, calls, docs, view, canvasFlags, painted, fit_all_run>>

\* the running call of compute_step_bounds in fit_step returns
FitStepReturn ==
    /\ walk = "fit_step"
    /\ ~(fit_step_run.include_repeats /\ show_xml_repeats
            /\ Top.k <= Len(drawing[Top.step].repeats))
    /\ stack' = SubSeq(stack, 1, Len(stack) - 1)
    /\ walk' = IF Len(stack) = 1 THEN "none" ELSE walk
    \* the root call has returned: the rest of fit_step
    /\ IF Len(stack) = 1
       THEN IF fit_step_run.bounds = NoBounds
            THEN /\ view' = ResetXmlView(view, DrawingSize(drawing)[1],
                                         DrawingSize(drawing)[2])
                 /\ fit_step_run' = [fit_step_run EXCEPT !.ended = "reset_xml_view"]
            ELSE LET r == XmlFitWorldBounds(view, fit_step_run.bounds, 50)
                 IN  /\ view' = r.view
                     /\ fit_step_run' =
                            [fit_step_run EXCEPT
                                !.ended = IF r.raised THEN "NameError" ELSE "returned"]
       ELSE UNCHANGED <<view, fit_step_run>>
    /\ UNCHANGED <<lesVars, xf, calls, docs, canvasFlags, painted, fit_all_run>>

\* ================================================================== arc bounds
\* Angles are hundredths of a degree.  The arcs drawn have their ends on the
\* circle about their centre, at one of twelve directions whose cosine and
\* sine times 5 are whole numbers: Directions[k] is 5 * (cos, sin) of Degrees[k].
Directions ==
    << <<5, 0>>, <<4, 3>>, <<3, 4>>, <<0, 5>>, <<-3, 4>>, <<-4, 3>>,
       <<-5, 0>>, <<-4, -3>>, <<-3, -4>>, <<0, -5>>, <<3, -4>>, <<4, -3>> >>
Degrees ==
    <<0, 3687, 5313, 9000, 12687, 14313, 18000, 21687, 23313, 27000, 30687, 32313>>
\* largest radius of an arc, in units of 5
MaxArcScale == 1

\* math.hypot(dx, dy) for a multiple of a direction, 0 for (0, 0)
Hypot(dx, dy) ==
    IF dx = 0 /\ dy = 0 THEN 0
    ELSE CHOOSE h \in {5 * m : m \in 1..MaxArcScale} :
            \E k \in 1..12 : <<dx * 5, dy * 5>> = <<h * Directions[k][1], h * Directions[k][2]>>

\* math.degrees(math.atan2(dy, dx)) % 360.0
Atan2Deg(dy, dx) ==
    IF dx = 0 /\ dy = 0 THEN 0
    ELSE LET h == Hypot(dx, dy)
             k == CHOOSE i \in 1..12 :
                     <<dx * 5, dy * 5>> = <<h * Directions[i][1], h * Directions[i][2]>>
         IN  Degrees[k]

\* r * math.cos(math.radians(a)) and r * math.sin(math.radians(a))
RCos(r, a) == LET k == CHOOSE i \in 1..12 : Degrees[i] = a % 36000 IN (r * Directions[k][1]) \div 5
RSin(r, a) == LET k == CHOOSE i \in 1..12 : Degrees[i] = a % 36000 IN (r * Directions[k][2]) \div 5

\* _normalize_deg(a)
NormalizeDeg(a) == a % 36000

\* _angle_in_sweep(a, a0, a1, direction)
AngleInSweep(a, a0, a1, direction) ==
    LET from == IF direction = "cw" THEN NormalizeDeg(a1) ELSE NormalizeDeg(a0)
        to == IF direction = "cw" THEN NormalizeDeg(a0) ELSE NormalizeDeg(a1)
        span == (to - from) % 36000
        rel == (NormalizeDeg(a) - from) % 36000
    IN  rel <= span

\* _angle_deg_math(cx, cy, x, y)
AngleDegMath(cx, cy, x, y) == Atan2Deg(cy - y, x - cx)

XmlDirKept(d) == d

\* _xml_dir_to_math(d)
XmlDirToMath(d) == IF d = "cw" THEN "ccw" ELSE "cw"

\* min and max of a non-empty set of numbers
MinOf(S) == CHOOSE v \in S : \A w \in S : v <= w
MaxOf(S) == CHOOSE v \in S : \A w \in S : w <= v

\* arc_bounds(cx, cy, r, a0, a1, direction)
ArcBounds(cx, cy, r, a0, a1, direction) ==
    LET ends == {<<cx + RCos(r, ang), cy - RSin(r, ang)>> : ang \in {a0, a1}}
        cardinal == {<<cx + RCos(r, ang), cy - RSin(r, ang)>> :
                        ang \in {c \in {0, 9000, 18000, 27000} :
                                    AngleInSweep(c, a0, a1, direction)}}
        pts == ends \cup cardinal
        xs == {pt[1] : pt \in pts}
        ys == {pt[2] : pt \in pts}
    IN  <<MinOf(xs), MinOf(ys), MaxOf(xs), MaxOf(ys)>>

\* the branch  elif e.type == 'arc'  of compute_step_bounds: the tuple handed
\* to add_bounds
ArcEdgeBounds(e, base_angle_deg, off_x, off_y) ==
    LET ang == -base_angle_deg
        s == RotateTranslate(e.xs, e.ys, ang, off_x, off_y)
        t == RotateTranslate(e.xe, e.ye, ang, off_x, off_y)
        c == RotateTranslate(e.xc, e.yc, ang, off_x, off_y)
        h == Hypot(s[1] - c[1], s[2] - c[2])
        r == IF h # 0 THEN h ELSE Max(e.radius, 0)
        a0 == AngleDegMath(c[1], c[2], s[1], s[2])
        a1 == AngleDegMath(c[1], c[2], t[1], t[2])
        dir_math == XmlDirToMath(e.direction)
    IN  ArcBounds(c[1], c[2], r, a0, a1, dir_math)

\* Edge of type arc
ArcEdge(xs, ys, xe, ye, xc, yc, radius, direction) ==
    [type |-> "arc", xs |-> xs, ys |-> ys, xe |-> xe, ye |-> ye, xc |-> xc, yc |-> yc,
     radius |-> radius, direction |-> direction]

ArcIdle == arc = [phase |-> "idle"]

\* a frame of the walk and an arc edge of the step walked in it
ArcInit ==
    arc \in
        [phase : {"call"},
         base_angle_deg : {0, 90},
         off : {<<0, 0>>, <<3, -2>>},
         e : {ArcEdge(c[1] + m * Directions[i][1], c[2] + m * Directions[i][2],
                      c[1] + m * Directions[j][1], c[2] + m * Directions[j][2],
                      c[1], c[2], 5 * m, d)
                : c \in {<<0, 0>>, <<1, -2>>}, m \in 1..MaxArcScale,
                  i \in 1..12, j \in 1..12, d \in {"cw", "ccw"}}]

\* compute_step_bounds reaches an arc edge
CallArcBounds ==
    /\ arc.phase = "call"
    /\ arc' = [phase |-> "return", base_angle_deg |-> arc.base_angle_deg, off |-> arc.off,
               e |-> arc.e,
               ab |-> ArcEdgeBounds(arc.e, arc.base_angle_deg, arc.off[1], arc.off[2])]
    /\ UNCHANGED <<lesVars, xf, xml, naming, sampling, docs, view>>

\* ================================================================== arc sampling
\* angles are in hundredths of a degree, as in arc_bounds; a sample angle is the
\* fraction  start + i * delta / num_segments  and the rounding of the float that
\* stands for it: 0 the fraction itself, -1 the float just below it, 1 just above

\* math.degrees(math.radians(s)) against s, for s = 0, 15, ..., 345 degrees
RoundTrip ==
    <<0, -1, -1, 0, -1, 0, 0, 1, -1, 0, 0, 0, 0, 0, 1, 0, -1, 1, 0, 0, 0, 0, 0, 0>>

\* a % m for a fraction a
FMod(a, m) == Frac(a[1] % (m * a[2]), a[2])

\* arc_polyline_world_points: delta_deg
SweepDelta(start_deg_math, end_deg_math, direction) ==
    IF direction = "ccw"
    THEN (end_deg_math - start_deg_math) % 36000
    ELSE -((start_deg_math - end_deg_math) % 36000)

\* arc_polyline_world_points: num_segments; math.radians with pi as 355/113, which
\* gives int(arc_len_px / 3) of the code for every argument of SamplingInit
NumSegments(delta_deg, r, zoom_level) ==
    LET px == Max(r * zoom_level, 1)
        n == Max(12, Min(512, (Abs(delta_deg) * 355 * px) \div (113 * 54000)))
    IN  IF n < 2 THEN 2 ELSE n

\* arc_polyline_world_points: a = start_rad + i * step_rad, in degrees
SampleAngle(start_deg_math, delta_deg, num_segments, i) ==
    Frac(start_deg_math * num_segments + i * delta_deg, num_segments)

\* the rounding of sample i: with delta_deg = 0 step_rad is 0.0 and every sample
\* is start_rad; elsewhere the sum rounds to either side
SampleRoundings(start_deg_math, delta_deg, i) ==
    IF i = 0 \/ delta_deg = 0
    THEN {RoundTrip[start_deg_math \div 1500 + 1]}
    ELSE {-1, 0, 1}

\* _angle_in_sweep(a, a0, a1, direction) for a sample angle a rounded by e: a float
\* just below the lower end of the sweep has rel just below 360, a float just above
\* the upper end is within the 1e-9 of the comparison
AngleInSweepRounded(a, e, a0, a1, direction) ==
    LET from == IF direction = "cw" THEN NormalizeDeg(a1) ELSE NormalizeDeg(a0)
        to == IF direction = "cw" THEN NormalizeDeg(a0) ELSE NormalizeDeg(a1)
        span == (to - from) % 36000
        rel == FMod(FSub(a, Whole(from)), 36000)
    IN  IF e < 0 /\ rel[1] = 0 THEN FALSE ELSE ~FLess(Whole(span), rel)

SamplingIdle == sampling = [phase |-> "idle"]

\* arcs with end angles at multiples of 15 degrees
SamplingInit ==
    sampling \in
        [phase : {"call"},
         r : {0, 6},
         zoom_level : {1, 2},
         start_deg_math : {1500 * k : k \in 0..23},
         end_deg_math : {1500 * k : k \in 0..23},
         direction : {"cw", "ccw"}]

\* arc_polyline_world_points(canvas, cx, cy, r, start_deg_math, end_deg_math, direction):
\* the angle of one of the points returned
CallArcPolylineWorldPoints ==
    /\ sampling.phase = "call"
    /\ LET delta_deg == SweepDelta(sampling.start_deg_math, sampling.end_deg_math,
                                   sampling.direction)
           num_segments == NumSegments(delta_deg, sampling.r, sampling.zoom_level)
       IN  \E i \in 0..num_segments :
             \E e \in SampleRoundings(sampling.start_deg_math, delta_deg, i) :
               sampling' =
                   [phase |-> "return",
                    r |-> sampling.r, zoom_level |-> sampling.zoom_level,
                    start_deg_math |-> sampling.start_deg_math,
                    end_deg_math |-> sampling.end_deg_math,
                    direction |-> sampling.direction,
                    num_segments |-> num_segments, i |-> i,
                    a |-> SampleAngle(sampling.start_deg_math, delta_deg, num_segments, i),
                    e |-> e]
    /\ UNCHANGED <<lesVars, xf, xml, naming, arc, docs, view>>

\* ================================================================== documents of the canvas
\* loads of a file per run
MaxLoads == 3

\* Optional values: <<>> is None, <<v>> is v.  `o or ...` takes the other branch on these
Falsy(o) == o = <<>> \/ o = <<"">>

\* The XML files at hand.  parses: ET.parse reads the file and finds it well formed;
\* numeric: every float() of parse_xml succeeds; has_start: the root has a <start> child;
\* start: its step attribute; steps: the names of the <step> children, in file order.
XmlFile(path, parses, numeric, has_start, start, step_names) ==
    [kind |-> "xml", path |-> path, parses |-> parses, numeric |-> numeric,
     has_start |-> has_start, start |-> start, steps |-> step_names]

XmlFiles ==
    { XmlFile("torn.xml", FALSE, TRUE, FALSE, <<>>, <<>>),
      XmlFile("width.xml", TRUE, FALSE, TRUE, <<"A">>, <<"A">>),
      XmlFile("panel.xml", TRUE, TRUE, TRUE, <<"B">>, <<"A", "B">>),
      XmlFile("plain.xml", TRUE, TRUE, FALSE, <<>>, <<"A", "B">>),
      XmlFile("stray.xml", TRUE, TRUE, TRUE, <<"Z">>, <<"A">>),
      XmlFile("bare.xml", TRUE, TRUE, FALSE, <<>>, <<>>) }

\* The LES files at hand.  raises: Les(file_path) raises (open fails, or a line does not
\* convert); points: the layer of each point, in file order.
LesFile(path, raises, layer_count, point_layers) ==
    [kind |-> "les", path |-> path, raises |-> raises, count_of_layer |-> layer_count,
     points |-> point_layers]

LesFiles ==
    { LesFile("gone.les", TRUE, 0, <<>>),
      LesFile("two.les", FALSE, 2, <<1, 2>>),
      LesFile("flat.les", FALSE, 0, <<1>>) }

\* the empty dict
EmptyDict == [l \in {} |-> TRUE]

\* ViewerCanvasCore.__init__
CanvasInit ==
    [les_data |-> <<>>, xml_drawings |-> <<>>, current_xml_drawing_idx |-> -1,
     current_xml_step |-> <<>>, selected_point |-> <<>>, show_layers |-> EmptyDict,
     layer_mode |-> "both"]

\* a call that ran to its end hands back [raised |-> FALSE, canvas |-> ...]
Returned(cv) == [raised |-> FALSE, canvas |-> cv]
\* a call left by an exception
Raised(cv) == [raised |-> TRUE, canvas |-> cv]

\* Drawing(file_path): obj tells the objects apart
Drawing(file, obj) ==
    IF ~file.parses \/ ~file.numeric
    THEN [raised |-> TRUE]
    ELSE LET declared   == IF file.has_start THEN file.start ELSE <<"">>
             start_step == IF Falsy(declared) /\ file.steps # <<>>
                           THEN <<file.steps[1]>>
                           ELSE declared
         IN  [raised |-> FALSE,
              value |-> [obj |-> obj, file_path |-> file.path, start_step |-> start_step,
                         steps |-> file.steps]]

\* drawing.start_step or (next(iter(drawing.steps.keys())) if drawing.steps else None)
StartOf(d) ==
    IF ~Falsy(d.start_step) THEN d.start_step
    ELSE IF d.steps # <<>> THEN <<d.steps[1]>> ELSE <<>>

LoadXmlFileAppendsFirst(cv, file, obj) ==
    LET d    == Drawing(file, obj)
        torn == [obj |-> obj, file_path |-> file.path, start_step |-> <<"">>, steps |-> <<>>]
        got  == IF d.raised THEN torn ELSE d.value
        to   == [cv EXCEPT !.xml_drawings = Append(@, got),
                           !.current_xml_drawing_idx = Len(cv.xml_drawings),
                           !.current_xml_step = StartOf(got)]
    IN  IF d.raised THEN Raised(to) ELSE Returned(to)

\* ViewerCanvasCore.load_xml_file; reset_xml_view sets only zoom and pan
LoadXmlFile(cv, file, obj) ==
    LET d == Drawing(file, obj)
    IN  IF d.raised
        THEN Raised(cv)
        ELSE Returned([cv EXCEPT !.xml_drawings = Append(@, d.value),
                                 !.current_xml_drawing_idx = Len(cv.xml_drawings),
                                 !.current_xml_step = StartOf(d.value)])

\* Les(file_path)
Les(file, obj) ==
    IF file.raises
    THEN [raised |-> TRUE]
    ELSE [raised |-> FALSE,
          value |-> [obj |-> obj, file_path |-> file.path,
                     count_of_layer |-> file.count_of_layer, points |-> file.points]]

\* ViewerCanvasCore.init_layer_visibility
InitLayerVisibility(cv) ==
    IF cv.les_data = <<>>
    THEN cv
    ELSE LET ld           == cv.les_data[1]
             top_layer    == 1
             bottom_layer == IF ld.count_of_layer # 0
                             THEN ld.count_of_layer
                             ELSE MaxOf({ld.points[i] : i \in DOMAIN ld.points} \cup {1})
         IN  [cv EXCEPT !.show_layers =
                 [layer \in DOMAIN cv.show_layers |->
                     CASE cv.layer_mode = "top"    -> layer = top_layer
                       [] cv.layer_mode = "bottom" -> layer = bottom_layer
                       [] OTHER                    -> layer \in {top_layer, bottom_layer}]]

\* the LES branch of ViewerCanvasCore.load_file, inside the try; auto_zoom sets only zoom and pan
LoadLes(cv, file, obj) ==
    LET les == Les(file, obj)
    IN  IF les.raised
        THEN Raised(cv)
        ELSE Returned(InitLayerVisibility(
                 [cv EXCEPT !.les_data = <<les.value>>,
                            !.show_layers = [layer \in {les.value.points[i] :
                                                          i \in DOMAIN les.value.points}
                                               |-> TRUE]]))

\* ViewerCanvasCore.unload_les
UnloadLes(cv) ==
    [cv EXCEPT !.les_data = <<>>, !.selected_point = <<>>, !.show_layers = EmptyDict]

\* del s[i], i counted from 0
DelAt(s, i) == SubSeq(s, 1, i) \o SubSeq(s, i + 2, Len(s))

UnloadFirstXml(cv) ==
    IF cv.xml_drawings = <<>>
    THEN cv
    ELSE LET rest == DelAt(cv.xml_drawings, 0)
         IN  IF rest = <<>>
             THEN [cv EXCEPT !.xml_drawings = rest, !.current_xml_drawing_idx = -1,
                             !.current_xml_step = <<>>]
             ELSE [cv EXCEPT !.xml_drawings = rest, !.current_xml_drawing_idx = 0,
                             !.current_xml_step = StartOf(rest[1])]

UnloadCurrentXmlKeepsIdx(cv) ==
    IF cv.xml_drawings = <<>>
    THEN cv
    ELSE LET rest == DelAt(cv.xml_drawings, cv.current_xml_drawing_idx)
         IN  IF rest = <<>>
             THEN [cv EXCEPT !.xml_drawings = rest, !.current_xml_step = <<>>]
             ELSE [cv EXCEPT !.xml_drawings = rest, !.current_xml_step = StartOf(rest[1])]

\* ViewerCanvasCore.unload_current_xml
UnloadCurrentXml(cv) ==
    IF cv.xml_drawings = <<>>
    THEN cv
    ELSE LET idx  == cv.current_xml_drawing_idx
             rest == IF 0 <= idx /\ idx < Len(cv.xml_drawings)
                     THEN DelAt(cv.xml_drawings, idx)
                     ELSE cv.xml_drawings
         IN  IF rest = <<>>
             THEN [cv EXCEPT !.xml_drawings = rest, !.current_xml_drawing_idx = -1,
                             !.current_xml_step = <<>>]
             ELSE LET at == IF idx <= Len(rest) - 1 THEN idx ELSE Len(rest) - 1
                      \* a negative index counts from the end of the list
                      cur == IF at >= 0 THEN rest[at + 1] ELSE rest[Len(rest) + at + 1]
                  IN  [cv EXCEPT !.xml_drawings = rest, !.current_xml_drawing_idx = at,
                                 !.current_xml_step = StartOf(cur)]

\* ConfigManager.set_last_files; <<>> is an argument left at None
SetLastFiles(cfg, les_file, xml_file) ==
    [les_file |-> IF les_file # <<>> THEN les_file[1] ELSE cfg.les_file,
     xml_file |-> IF xml_file # <<>> THEN xml_file[1] ELSE cfg.xml_file]

\* ConfigManager.clear_files
ClearFiles(cfg, file_type) ==
    [les_file |-> IF file_type = "les" THEN "" ELSE cfg.les_file,
     xml_file |-> IF file_type = "xml" THEN "" ELSE cfg.xml_file]

\* the canvas is constructed, nothing was called on it, no config.ini yet
DocsIdle ==
    /\ canvas = CanvasInit
    /\ called = [op |-> "__init__", n |-> 0, file |-> <<>>, out |-> "None"]
    /\ config = [les_file |-> "", xml_file |-> ""]

\* what a call leaves in `called`: n counts the loads
Call0(op, n, file, out) == [op |-> op, n |-> n, file |-> file, out |-> out]

\* MainWindow.open_les_file_dialog (and the LES branch of load_path_smart):
\* ViewerCanvasCore.load_file returns True, or shows the error and returns False; the
\* caller drops the result and records the path
CanvasLoadFile ==
    /\ called.n < MaxLoads
    /\ \E file \in XmlFiles \cup LesFiles :
          LET r == IF file.kind = "xml"
                   THEN LoadXmlFile(canvas, file, called.n + 1)
                   ELSE LoadLes(canvas, file, called.n + 1)
          IN  /\ canvas' = r.canvas
              /\ called' = Call0("load_file", called.n + 1, <<file>>,
                                 IF r.raised THEN "False" ELSE "True")
              /\ config' = SetLastFiles(config, <<file.path>>, <<>>)
    /\ UNCHANGED <<lesVars, xf, xml, calls, view>>

\* MainWindow.open_xml_file_dialog and the XML branch of load_path_smart, one path:
\* _load_xml_silent_and_zoom calls load_xml_file outside any except clause, fit_all after
\* it changes zoom and pan only and its exceptions are swallowed; the path is recorded
\* when the call returns
LoadXmlSilentAndZoom ==
    /\ called.n < MaxLoads
    /\ \E file \in XmlFiles :
          LET r == LoadXmlFile(canvas, file, called.n + 1)
          IN  /\ canvas' = r.canvas
              /\ called' = Call0("_load_xml_silent_and_zoom", called.n + 1, <<file>>,
                                 IF r.raised THEN "raised" ELSE "None")
              /\ config' = IF r.raised THEN config
                           ELSE SetLastFiles(config, <<>>, <<file.path>>)
    /\ UNCHANGED <<lesVars, xf, xml, calls, view>>

\* MainWindow.unload_les
CallUnloadLes ==
    /\ canvas' = UnloadLes(canvas)
    /\ called' = Call0("unload_les", called.n, <<>>, "None")
    /\ config' = ClearFiles(config, "les")
    /\ UNCHANGED <<lesVars, xf, xml, calls, view>>

\* MainWindow.unload_xml
CallUnloadCurrentXml ==
    /\ canvas' = UnloadCurrentXml(canvas)
    /\ called' = Call0("unload_current_xml", called.n, <<>>, "None")
    /\ config' = ClearFiles(config, "xml")
    /\ UNCHANGED <<lesVars, xf, xml, calls, view>>

\* mousePressEvent with the left button: the nearest shown point within reach, or none
LeftClick ==
    /\ canvas.les_data # <<>>
    /\ LET ld   == canvas.les_data[1]
           near == {i \in DOMAIN ld.points :
                       ld.points[i] \in DOMAIN canvas.show_layers
                       /\ canvas.show_layers[ld.points[i]]}
       IN  \E hit \in {<<>>} \cup {<<[obj |-> ld.obj, point |-> i]>> : i \in near} :
              canvas' = [canvas EXCEPT !.selected_point = hit]
    /\ called' = Call0("mousePressEvent", called.n, <<>>, "None")
    /\ config' = config
    /\ UNCHANGED <<lesVars, xf, xml, calls, view>>

\* MainWindow._set_layer_mode
SetLayerMode ==
    /\ \E mode \in {"top", "bottom", "both"} :
          canvas' = InitLayerVisibility([canvas EXCEPT !.layer_mode = mode])
    /\ called' = Call0("_set_layer_mode", called.n, <<>>, "None")
    /\ config' = config
    /\ UNCHANGED <<lesVars, xf, xml, calls, view>>

\* ================================================================== events on the view
\* wheel events per run
MaxWheelEvents == 2

\* sizes the widget is resized to: WidgetSizes, and one as wide as twice the padding
ResizeSizes == WidgetSizes \cup {<<100, 200>>}

\* <<min_x, min_y, max_x, max_y>> of what a loaded document shows
Extents == {<<0, 0, 100, 50>>, <<-20, 10, 20, 10>>, <<5, 5, 6, 7>>}

\* ViewerCanvasCore.resizeEvent
CallResizeEvent ==
    /\ \E s \in ResizeSizes : view' = ResizeEvent(view, s[1], s[2])
    /\ UNCHANGED <<lesVars, xf, xml, calls, docs>>

\* les_drawing.auto_zoom(self) at the end of an LES load
CallAutoZoom ==
    /\ \E b \in Extents \cup {<<>>} : view' = AutoZoom(view, b)
    /\ UNCHANGED <<lesVars, xf, xml, calls, docs>>

\* xml_drawing.reset_xml_view(self) at the end of load_xml_file and unload_current_xml
CallResetXmlView ==
    /\ \E d \in Drawings : view' = ResetXmlView(view, DrawingSize(d)[1], DrawingSize(d)[2])
    /\ UNCHANGED <<lesVars, xf, xml, calls, docs>>

\* the end of ViewerCanvasCore.fit_all, for the bounds it has gathered
CallFitAll ==
    /\ \E b \in Extents :
          view' = IF b[3] > b[1] /\ b[4] > b[2] THEN FitWorldBounds(view, b, 50) ELSE view
    /\ UNCHANGED <<lesVars, xf, xml, calls, docs>>

\* ViewerCanvas.wheelEvent
CallWheelEvent ==
    /\ view.wheel_events < MaxWheelEvents
    /\ \E up \in BOOLEAN, at \in {<<0, 0>>, <<45, 30>>} :
          view' = WheelEvent(view, up, at[1], at[2]).view
    /\ UNCHANGED <<lesVars, xf, xml, calls, docs>>

\* ================================================================== specifications
\* the parse of one LES file
\* no call modelled on its own is under way
CallsIdle == NamingIdle /\ ArcIdle /\ SamplingIdle

Init == LesInit /\ XfIdle /\ XmlIdle /\ CallsIdle /\ DocsIdle /\ ViewIdle
Next == LoadFile
Spec == Init /\ [][Next]_vars

\* calls of apply_transformation
InitXf == LesInit /\ XfInit /\ XmlIdle /\ CallsIdle /\ DocsIdle /\ ViewIdle
NextXf == CallApplyTransformation
SpecXf == InitXf /\ [][NextXf]_vars

\* painting and fitting a loaded XML drawing
InitXml == LesInit /\ XfIdle /\ XmlInit /\ CallsIdle /\ DocsIdle /\ ViewSized
NextXml ==
    \/ DrawXml
    \/ DrawRepeat
    \/ DrawReturn
    \/ FitAll
    \/ FitAllRepeat
    \/ FitAllReturn
    \/ FitStep
    \/ FitStepRepeat
    \/ FitStepReturn
SpecXml == InitXml /\ [][NextXml]_vars

\* calls of assign_panel_image_names
InitNaming ==
    LesInit /\ XfIdle /\ XmlIdle /\ NamingInit /\ ArcIdle /\ SamplingIdle /\ DocsIdle /\ ViewIdle
NextNaming == CallAssignPanelImageNames
SpecNaming == InitNaming /\ [][NextNaming]_vars

\* the bounds of arc edges
InitArc ==
    LesInit /\ XfIdle /\ XmlIdle /\ NamingIdle /\ ArcInit /\ SamplingIdle /\ DocsIdle /\ ViewIdle
NextArc == CallArcBounds
SpecArc == InitArc /\ [][NextArc]_vars

\* the sample angles of arcs
InitSampling ==
    LesInit /\ XfIdle /\ XmlIdle /\ NamingIdle /\ ArcIdle /\ SamplingInit /\ DocsIdle /\ ViewIdle
NextSampling == CallArcPolylineWorldPoints
SpecSampling == InitSampling /\ [][NextSampling]_vars

\* loading and unloading documents, clicks and layer modes
InitDocs == LesInit /\ XfIdle /\ XmlIdle /\ CallsIdle /\ DocsIdle /\ ViewIdle
NextDocs ==
    \/ CanvasLoadFile
    \/ LoadXmlSilentAndZoom
    \/ CallUnloadLes
    \/ CallUnloadCurrentXml
    \/ LeftClick
    \/ SetLayerMode
SpecDocs == InitDocs /\ [][NextDocs]_vars

\* zooming: loads, fits, wheel events and resizes as they act on the view
InitView == LesInit /\ XfIdle /\ XmlIdle /\ CallsIdle /\ DocsIdle /\ ViewIdle
NextView ==
    \/ CallResizeEvent
    \/ CallAutoZoom
    \/ CallResetXmlView
    \/ CallFitAll
    \/ CallWheelEvent
SpecView == InitView /\ [][NextView]_vars

\* ================================================================== claims
\* the positions in content of the lines that reached handler h
RECURSIVE LinesOf(_, _)
LinesOf(h, k) ==
    IF k > Len(content) THEN <<>>
    ELSE IF Classify(content[k]) = h THEN <<k>> \o LinesOf(h, k + 1)
    ELSE LinesOf(h, k + 1)

RECURSIVE Flatten(_)
Flatten(segs) == IF segs = <<>> THEN <<>> ELSE Head(segs) \o Flatten(Tail(segs))

\* C1: load_file runs the naming pass exactly once after the last line, whatever
\* the file contains, so that after it returns every point carries a
\* panel_image_name.
C1_NamingPassRunsOnce ==
    pc = "done" =>
        /\ naming_runs = 1
        /\ \A k \in 1..Len(points) : points[k].panel_image_name # NoLabel

\* C2: a recognised aperture or step line with a numeric field that does not
\* parse never raises: the record is appended all the same.
C2_MalformedFieldNeverRaises ==
    /\ pc # "raised"
    /\ Len(apertures) = Len(LinesOf("aperture", 1))
    /\ Len(steps) = Len(LinesOf("step", 1))

\* the decoded header of every net, without the nets' point lists
NetHeaders(ns) ==
    [k \in 1..Len(ns) |->
        [index |-> ns[k].index, image |-> ns[k].image, is_plain |-> ns[k].is_plain]]

\* the shapes in the order the specification gives them
Shapes == <<"test", "layer", "unit", "outline", "tooling", "aperture", "step", "net", "point">>
Matches(line, shape) == IF shape = "test" THEN line.atfh ELSE line.k = shape
FirstMatch(line) ==
    LET hits == {j \in 1..Len(Shapes) : Matches(line, Shapes[j])}
    IN  IF hits = {} THEN "ignored"
        ELSE Shapes[CHOOSE j \in hits : \A i \in hits : j <= i]

\* what one step of load_file changed among the collections and state variables
Changed ==
    (IF <<outline_points, current_outline_segment>>' # <<outline_points, current_outline_segment>>
        THEN {"outline"} ELSE {})
    \cup (IF points' # points THEN {"points"} ELSE {})
    \cup (IF apertures' # apertures THEN {"apertures"} ELSE {})
    \cup (IF steps' # steps THEN {"steps"} ELSE {})
    \cup (IF NetHeaders(nets') # NetHeaders(nets) THEN {"nets"} ELSE {})
    \cup (IF test' # test THEN {"test"} ELSE {})
    \cup (IF count_of_layer' # count_of_layer THEN {"count_of_layer"} ELSE {})
    \cup (IF scale' # scale THEN {"scale"} ELSE {})

Owned(h) ==
    IF h = "test" THEN {"test"}
    ELSE IF h = "layer" THEN {"count_of_layer"}
    ELSE IF h = "unit" THEN {"scale"}
    ELSE IF h = "outline" THEN {"outline"}
    ELSE IF h \in {"tooling", "point"} THEN {"points"}
    ELSE IF h = "aperture" THEN {"apertures"}
    ELSE IF h = "step" THEN {"steps"}
    ELSE IF h = "net" THEN {"nets"}
    ELSE {}

C7_AllPointsEnableIffOuterLayer ==
    pc = "done" =>
        \A k \in 1..Len(points) :
            points[k].is_enable <=>
                (points[k].layer = 1 \/ points[k].layer = points[k].count_of_layer)

\* C7 amended: for regular points is_enable iff layer == 1 or layer == the
\* layer count the point was decoded with; a tooling hole is never enabled.
C7_RegularPointsEnableIffOuterLayer ==
    \A k \in 1..Len(points) :
        IF points[k].style = "NORMAL"
        THEN points[k].is_enable <=>
                (points[k].layer = 1 \/ points[k].layer = points[k].count_of_layer)
        ELSE ~points[k].is_enable

\* an enabled bottom-layer point, a disabled inner or outer point
C7_Witness ==
    /\ pc = "done"
    /\ \E k \in 1..Len(points) :
          /\ points[k].style = "NORMAL"
          /\ points[k].layer = 2
          /\ points[k].count_of_layer = 2
          /\ points[k].is_enable
    /\ \E k \in 1..Len(points) : ~points[k].is_enable

\* C8: every point has 1 <= layer <= count_of_layer, whatever its V section
\* says and whether or not a layer-count directive came first.
C8_LayerWithinStack ==
    pc = "done" =>
        \A k \in 1..Len(points) :
            /\ 1 <= points[k].layer
            /\ points[k].layer <= points[k].count_of_layer
            /\ points[k].layer <= Max(count_of_layer, 1)

RECURSIVE FoldOps(_, _, _, _, _, _)
FoldOps(ops, k, x, y, layer, count) ==
    IF k > Len(ops) THEN <<x, y, layer>>
    ELSE IF ops[k] = "D" THEN FoldOps(ops, k + 1, y, -x, layer, count)
    ELSE IF ops[k] = "X" THEN FoldOps(ops, k + 1, x, -y, (1 - layer) + count, count)
    ELSE FoldOps(ops, k + 1, -x, y, (1 - layer) + count, count)

\* C9: apply_transformation(point, i) is the left-to-right fold over the chain
\* (D: (x, y) -> (y, -x); X: y -> -y; Y: x -> -x; each mirror flips the running
\* layer) followed by offset + i * distance; two mirrors give the layer back.
C9_TransformIsFold ==
    xf.phase = "return" =>
        LET f == FoldOps(xf.st.operations, 1, xf.point.x, xf.point.y, xf.point.layer,
                         xf.point.count_of_layer)
        IN  xf.result = <<f[1] + xf.st.offset_x + xf.step_index * xf.st.distance_x,
                          f[2] + xf.st.offset_y + xf.step_index * xf.st.distance_y,
                          f[3]>>

\* C3: the draw walk carries a depth that grows by one per repeat level and
\* stops descending beyond depth 50, so it ends without failing after at most
\* 51 levels, also on a cyclic repeat graph.
C3_DrawWalkCapped ==
    painted.ran =>
        /\ ~painted.err
        /\ \A k \in 1..Len(painted.frames) :
              /\ painted.frames[k].depth = painted.frames[k].level - 1
              /\ painted.frames[k].level <= 51

\* C4: the bounds walks of fit_all and fit_step stop descending at the same
\* cap and end without failing, also on a cyclic repeat graph.
C4_BoundsWalksCapped ==
    /\ fit_all_run.ran =>
          /\ ~fit_all_run.err
          /\ \A k \in 1..Len(fit_all_run.frames) : fit_all_run.frames[k].level <= 51
    /\ fit_step_run.ran =>
          /\ ~fit_step_run.err
          /\ \A k \in 1..Len(fit_step_run.frames) : fit_step_run.frames[k].level <= 51

\* where a walk went: the steps with their accumulated angle and world offset
Visits(frames) ==
    [k \in 1..Len(frames) |->
        <<frames[k].step, frames[k].angle, frames[k].off_x, frames[k].off_y>>]

Inside(bounds, x, y) ==
    /\ bounds # NoBounds
    /\ bounds[1] <= x /\ x <= bounds[3]
    /\ bounds[2] <= y /\ y <= bounds[4]

StepImages(sts) == {sts[k].image : k \in 1..Len(sts)}

\* the least positive integer outside a set of integers
LeastUnused(used) ==
    CHOOSE n \in 1..(Cardinality(used) + 1) :
        /\ n \notin used
        /\ \A m \in 1..(n - 1) : m \in used

\* C11: a point whose image is unset gets the smallest positive id that no step
\* declares and no earlier unset point of the pass was given, and the label
\* "Panel 1 Image {id}"; later unset points do not get that id again.
C11_UnsetPointGetsSmallestUnusedImage ==
    naming.phase = "return" =>
        \A k \in 1..Len(naming.points) :
            naming.points[k].image = 0 =>
                LET earlier == {naming.result[j].image :
                                   j \in {i \in 1..(k - 1) : naming.points[i].image = 0}}
                    id == LeastUnused(StepImages(naming.steps) \cup earlier)
                IN  /\ naming.result[k].image = id
                    /\ naming.result[k].panel_image_name = Label(1, id)

\* steps declare images 1 and 2; the unset point gets image 3, "Panel 1 Image 3",
\* and a second unset point gets image 4
C11_Witness ==
    /\ naming.phase = "return"
    /\ StepImages(naming.steps) = {1, 2}
    /\ Len(naming.points) = 2
    /\ naming.points[1].image = 0 /\ naming.points[2].image = 0
    /\ naming.result[1].image = 3
    /\ naming.result[1].panel_image_name = Label(1, 3)
    /\ naming.result[2].image = 4

\* C12: a point with a non-zero image keeps its image and is labelled with the
\* position of the first step that declares the image, "Panel 1 Image {image}"
\* when no step declares it.
C12_SetPointResolvesToFirstPanel ==
    naming.phase = "return" =>
        \A k \in 1..Len(naming.points) :
            naming.points[k].image # 0 =>
                LET img == naming.points[k].image
                    decl == {j \in 1..Len(naming.steps) : naming.steps[j].image = img}
                    p == IF decl = {} THEN 1 ELSE CHOOSE j \in decl : \A i \in decl : j <= i
                IN  /\ naming.result[k].image = img
                    /\ naming.result[k].panel_image_name = Label(p, img)

\* steps 2 and 3 both declare image 2: the point resolves to panel 2; a point
\* of an image no step declares gets the synthesized label
C12_Witness ==
    /\ naming.phase = "return"
    /\ Len(naming.steps) = 3
    /\ naming.steps[1].image = 1 /\ naming.steps[2].image = 2 /\ naming.steps[3].image = 2
    /\ Len(naming.points) = 2
    /\ naming.points[1].image = 2
    /\ naming.result[1].panel_image_name = Label(2, 2)
    /\ naming.points[2].image = 3
    /\ naming.result[2].panel_image_name = Label(1, 3)

\* the number of lines before line i that reached handler h
Before(h, i) == Cardinality({j \in 1..(i - 1) : Classify(content[j]) = h})

\* the positions in points of the regular points read while net n was current
RECURSIVE PointsUnder(_, _)
PointsUnder(n, k) ==
    IF k > Len(points) THEN <<>>
    ELSE IF points[k].style = "NORMAL" /\ Before("net", points[k].line) = n
    THEN <<k>> \o PointsUnder(n, k + 1)
    ELSE PointsUnder(n, k + 1)

\* C13: a regular point references the net of the last header before its line
\* and, when it is read, has that net's image; each net lists exactly the
\* regular points read while it was current, in file order; a regular point
\* before any header holds a default Net (index 0, image 1) and is in no list.
C13_PointsFollowCurrentNet ==
    /\ \A k \in 1..Len(points) :
          points[k].style = "NORMAL" =>
              LET n == Before("net", points[k].line)
              IN  /\ points[k].net_ref = n
                  /\ pc = "parsing" =>
                        points[k].image = IF n = 0 THEN 1 ELSE nets[n].image
    /\ DefaultNet.index = 0 /\ DefaultNet.image = 1
    /\ \A n \in 1..Len(nets) : nets[n].points = PointsUnder(n, 1)

\* header, point, header, still parsing: the point stays with the first net
C13_Witness ==
    /\ pc = "parsing"
    /\ Len(nets) = 2 /\ Len(points) = 1
    /\ nets[1].image = 2
    /\ points[1].net_ref = 1 /\ points[1].image = 2
    /\ nets[1].points = <<1>> /\ nets[2].points = <<>>

\* C14: a tooling hole is Global iff no step line precedes it, Local otherwise;
\* a Global one is decoded with image 0, a Local one with the digits after I
\* (1 when there are none); is_test and is_enable are false for both.
C14_ToolingStyleByStepLine ==
    \A k \in 1..Len(points) :
        points[k].style # "NORMAL" =>
            LET l == content[points[k].line]
            IN  /\ points[k].style \in {"GLOBAL", "LOCAL"}
                /\ points[k].style = "GLOBAL" <=> Before("step", points[k].line) = 0
                /\ ~points[k].is_test /\ ~points[k].is_enable
                /\ pc = "parsing" =>
                      points[k].image = IF points[k].style = "GLOBAL" THEN 0
                                        ELSE IF Parses(l.img) THEN l.img.v ELSE 1

\* "F,X5Y2T1I2" before and after a step line: image 0 and Global, then image 2
\* and Local
C14_Witness ==
    /\ pc = "parsing"
    /\ Len(points) = 2 /\ Len(steps) = 1
    /\ points[1].style = "GLOBAL" /\ points[1].image = 0
    /\ points[2].style = "LOCAL" /\ points[2].image = 2
    /\ content[points[1].line] = content[points[2].line]

\* the vertex (X * scale, Y * scale) of the outline line at position i
VertexOf(i) == <<content[i].x * scale_at[i], content[i].y * scale_at[i]>>

\* the outline lines after the last one that closed a segment
RECURSIVE OpenTail(_)
OpenTail(ls) ==
    IF ls = <<>> \/ ~content[ls[Len(ls)]].comma THEN <<>>
    ELSE Append(OpenTail(SubSeq(ls, 1, Len(ls) - 1)), ls[Len(ls)])

\* C15: every outline line appends exactly its vertex (X * scale, Y * scale); a
\* line ending in a comma keeps the segment open, any other closes it, and the
\* segment open at end-of-file is flushed: the polylines concatenated are the
\* outline vertices in file order and no polyline is empty.
C15_OutlineAccumulation ==
    LET ls == LinesOf("outline", 1)
        open == OpenTail(ls)
        closing == {j \in 1..Len(ls) : ~content[ls[j]].comma}
        all == Flatten(outline_points) \o current_outline_segment
    IN  /\ all = [j \in 1..Len(ls) |-> VertexOf(ls[j])]
        /\ \A n \in 1..Len(outline_points) : outline_points[n] # <<>>
        /\ pc = "parsing" =>
              /\ Len(outline_points) = Cardinality(closing)
              /\ Len(current_outline_segment) = Len(open)
        /\ pc = "done" =>
              /\ current_outline_segment = <<>>
              /\ Len(outline_points) = Cardinality(closing) + (IF open = <<>> THEN 0 ELSE 1)

\* (x, y) turned by a multiple of 90 degrees, counter-clockwise for a > 0 in a
\* frame with y up: 90 takes (1, 0) to (0, 1)
Turned(x, y, a) ==
    LET m == a % 360
    IN  IF m = 0 THEN <<x, y>>
        ELSE IF m = 90 THEN <<-y, x>>
        ELSE IF m = 180 THEN <<-x, -y>>
        ELSE <<y, -x>>

\* C16: the root call of a walk has angle 0 and the negated position of the
\* root step as offset; the call for a repeat has the caller's angle plus the
\* repeat's angle, and as offset the repeat's (x, y) turned by minus the
\* caller's angle and moved by the caller's offset; a line edge is drawn turned
\* by minus the angle of its frame and moved by its offset.
C16_FramesCompose ==
    /\ walk # "none" =>
          /\ stack[1].step = current_xml_step
          /\ stack[1].base_angle_deg = 0
          /\ stack[1].off_x = -drawing[current_xml_step].x
          /\ stack[1].off_y = -drawing[current_xml_step].y
          /\ \A i \in 2..Len(stack) :
                LET caller == stack[i - 1]
                    rpt == drawing[caller.step].repeats[caller.k - 1]
                    at == Turned(rpt.x, rpt.y, -caller.base_angle_deg)
                IN  /\ stack[i].step = rpt.step
                    /\ stack[i].base_angle_deg = caller.base_angle_deg + rpt.angle
                    /\ stack[i].off_x = at[1] + caller.off_x
                    /\ stack[i].off_y = at[2] + caller.off_y
    /\ (walk = "draw" /\ show_xml_edges) =>
          LET f == painted.frames[Len(painted.frames)]
              es == drawing[f.step].edges
              n == Len(painted.lines) - Len(es)
          IN  \A k \in 1..Len(es) :
                  LET a == Turned(es[k].xs, es[k].ys, -f.angle)
                      b == Turned(es[k].xe, es[k].ye, -f.angle)
                  IN  painted.lines[n + k] =
                          <<a[1] + f.off_x, a[2] + f.off_y, b[1] + f.off_x, b[2] + f.off_y>>

\* the panel at (1, 2) places the set by x=5, y=5, angle=90: the set is walked
\* at angle 90 from (4, 3), its edge (0,0)-(1,0) is drawn from (4, 3) to (4, 2),
\* and the piece it places by x=1, y=0, angle=270 is walked from (4, 2)
C16_Witness ==
    /\ drawing = DrawingTree
    /\ walk = "draw" /\ show_xml_edges
    /\ Len(stack) = 3
    /\ stack[2].base_angle_deg = 90 /\ stack[2].off_x = 4 /\ stack[2].off_y = 3
    /\ stack[3].base_angle_deg = 360 /\ stack[3].off_x = 4 /\ stack[3].off_y = 2
    /\ \E k \in 1..Len(painted.lines) : painted.lines[k] = <<4, 3, 4, 2>>

\* the running call of a walk is at a repeat, the walk follows repeats, and the
\* repeat names no step of the drawing
AtMissingStep ==
    /\ walk # "none"
    /\ show_xml_repeats
    /\ walk = "fit_step" => fit_step_run.include_repeats
    /\ stack[Len(stack)].k <= Len(drawing[stack[Len(stack)].step].repeats)
    /\ drawing[stack[Len(stack)].step].repeats[stack[Len(stack)].k].step \notin DOMAIN drawing

\* C18: in the draw walk and in both bounds walks a repeat that names no step
\* of the drawing is passed over: the walk does not fail, nothing is drawn or
\* added to the bounds, and the loop goes on with the next repeat of the step.
C18_MissingStepSkipped ==
    [][AtMissingStep =>
          /\ stack' = [stack EXCEPT ![Len(stack)].k = @ + 1]
          /\ walk' = walk
          /\ painted' = painted
          /\ fit_all_run' = fit_all_run
          /\ fit_step_run' = fit_step_run]_vars

\* the panel names the missing step 9 in its second repeat: the bounds walk of
\* fit_all has gone past it and is inside the third repeat
C18_Witness ==
    /\ drawing = DrawingTree
    /\ current_xml_step = 1
    /\ walk = "fit_all"
    /\ ~fit_all_run.err
    /\ Len(stack) = 2
    /\ stack[1].k = 4
    /\ drawing[1].repeats[2].step \notin DOMAIN drawing

\* the arc of a returned call in world coordinates: centre, ends, radius in
\* units of 5, and the places 0..11 of its ends around the circle, counted
\* from (r, 0) towards (0, -r), the way _angle_deg_math counts angles
ArcWorld ==
    LET at(x, y) == LET v == Turned(x, y, -arc.base_angle_deg)
                    IN  <<v[1] + arc.off[1], v[2] + arc.off[2]>>
        c == at(arc.e.xc, arc.e.yc)
        s == at(arc.e.xs, arc.e.ys)
        t == at(arc.e.xe, arc.e.ye)
        m == arc.e.radius \div 5
        place(pt) == CHOOSE q \in 0..11 :
                        <<pt[1] - c[1], c[2] - pt[2]>>
                            = <<m * Directions[q + 1][1], m * Directions[q + 1][2]>>
    IN  [c |-> c, s |-> s, t |-> t, m |-> m, i |-> place(s), j |-> place(t)]

\* place q lies on the sweep of the arc, which runs from its start to its end
\* against the direction the file names
OnSweep(q, w) ==
    IF arc.e.direction = "cw"
    THEN (q - w.i) % 12 <= (w.j - w.i) % 12
    ELSE (q - w.j) % 12 <= (w.i - w.j) % 12

\* the point of the circle at place q
OnCircle(q, w) ==
    <<w.c[1] + w.m * Directions[q + 1][1], w.c[2] - w.m * Directions[q + 1][2]>>

Structural(file) ==
    IF file.kind = "xml" THEN ~file.parses \/ ~file.numeric ELSE file.raises

\* C19: a load that fails structurally is reported to its caller (load_file returns False,
\* load_xml_file raises), and every reported failure leaves les_data, xml_drawings,
\* current_xml_drawing_idx and current_xml_step as they were before the call.
C19_FailedLoadLeavesDocuments ==
    [][called'.n = called.n + 1 =>
          /\ Structural(called'.file[1]) => called'.out \in {"False", "raised"}
          /\ called'.out \in {"False", "raised"} =>
                /\ canvas'.les_data = canvas.les_data
                /\ canvas'.xml_drawings = canvas.xml_drawings
                /\ canvas'.current_xml_drawing_idx = canvas.current_xml_drawing_idx
                /\ canvas'.current_xml_step = canvas.current_xml_step]_vars

\* a load has just failed on a canvas that holds an LES document and a drawing
C19_Witness ==
    /\ called.op \in {"load_file", "_load_xml_silent_and_zoom"}
    /\ called.out \in {"False", "raised"}
    /\ canvas.les_data # <<>>
    /\ Len(canvas.xml_drawings) = 1
    /\ canvas.current_xml_step # <<>>

\* C20: unload_current_xml removes exactly the drawing at current_xml_drawing_idx and keeps
\* the other drawings, in their order, and les_data; unload_les keeps xml_drawings,
\* current_xml_drawing_idx and current_xml_step; a load of an XML drawing keeps the drawings
\* loaded before it and les_data.
C20_DocumentsIndependent ==
    [][LET old == canvas.xml_drawings
           new == canvas'.xml_drawings
           idx == canvas.current_xml_drawing_idx
       IN  /\ (called'.op = "unload_current_xml" /\ old # <<>>) =>
                 /\ 0 <= idx /\ idx < Len(old)
                 /\ Len(new) = Len(old) - 1
                 /\ \A j \in 1..Len(new) : new[j] = IF j <= idx THEN old[j] ELSE old[j + 1]
                 /\ canvas'.les_data = canvas.les_data
           /\ (called'.op = "unload_current_xml" /\ old = <<>>) => canvas' = canvas
           /\ called'.op = "unload_les" =>
                 /\ new = old
                 /\ canvas'.current_xml_drawing_idx = idx
                 /\ canvas'.current_xml_step = canvas.current_xml_step
           /\ (called'.n = called.n + 1 /\ called'.file[1].kind = "xml") =>
                 /\ Len(new) >= Len(old)
                 /\ SubSeq(new, 1, Len(old)) = old
                 /\ canvas'.les_data = canvas.les_data]_vars

\* unload_current_xml has just taken one of two drawings away, an LES document is loaded
C20_Witness ==
    /\ called.op = "unload_current_xml"
    /\ called.n = MaxLoads
    /\ Len(canvas.xml_drawings) = 1
    /\ canvas.les_data # <<>>

\* C23: current_xml_drawing_idx is -1 exactly when xml_drawings is empty, and is
\* otherwise a position of xml_drawings: 0 <= current_xml_drawing_idx < len(xml_drawings).
C23_CurrentDrawingIdxValid ==
    /\ canvas.current_xml_drawing_idx = -1 <=> canvas.xml_drawings = <<>>
    /\ canvas.xml_drawings # <<>> =>
          /\ 0 <= canvas.current_xml_drawing_idx
          /\ canvas.current_xml_drawing_idx < Len(canvas.xml_drawings)

\* the second of two drawings was unloaded and the first is current again
C23_Witness ==
    /\ called.op = "unload_current_xml"
    /\ Len(canvas.xml_drawings) = 1
    /\ canvas.current_xml_drawing_idx = 0

\* C24: current_xml_step is None when no drawing is loaded or the current drawing has
\* no steps, and is otherwise the name of a step of the current drawing.
C24_CurrentStepNamesAStep ==
    LET idx == canvas.current_xml_drawing_idx
    IN  IF canvas.xml_drawings = <<>>
        THEN canvas.current_xml_step = <<>>
        ELSE LET cur == canvas.xml_drawings[idx + 1]
             IN  IF cur.steps = <<>>
                 THEN canvas.current_xml_step = <<>>
                 ELSE /\ canvas.current_xml_step # <<>>
                      /\ \E k \in DOMAIN cur.steps :
                            canvas.current_xml_step = <<cur.steps[k]>>

\* C25: selected_point is None or a point of the LES document that is loaded now.
C25_SelectedPointOfLoadedDocument ==
    canvas.selected_point # <<>> =>
        /\ canvas.les_data # <<>>
        /\ canvas.selected_point[1].obj = canvas.les_data[1].obj
        /\ canvas.selected_point[1].point \in DOMAIN canvas.les_data[1].points

\* the file at a path
FileAt(path) == CHOOSE file \in XmlFiles \cup LesFiles : file.path = path

\* C29: the last-file entries of the configuration name only files whose load succeeded:
\* a path whose load failed is never written as les_file or xml_file.
C29_LastFilesLoaded ==
    /\ config.les_file # "" => ~Structural(FileAt(config.les_file))
    /\ config.xml_file # "" => ~Structural(FileAt(config.xml_file))

\* C22: the aperture of a regular point is the first aperture, in definition order,
\* among those defined on lines before the point's line, whose index is the point's
\* aperture index, shared by reference; when there is none, also when one is defined
\* later in the file, the point keeps a default aperture of its own and the parse goes on.
C22_ApertureFromEarlierLines ==
    \A k \in 1..Len(points) :
        points[k].style = "NORMAL" =>
            LET at      == points[k].line
                l       == content[at]
                earlier == {j \in 1..(at - 1) :
                               /\ Classify(content[j]) = "aperture"
                               /\ Parses(l.ap)
                               /\ content[j].index = l.ap.v}
            IN  IF earlier = {}
                THEN /\ points[k].ap_ref = 0
                     /\ points[k].ap_own = DefaultAperture
                ELSE LET first == CHOOSE j \in earlier : \A i \in earlier : j <= i
                     IN  /\ points[k].ap_ref = Before("aperture", first) + 1
                         /\ points[k].ap_ref <= Len(apertures)
                         /\ apertures[points[k].ap_ref].index = l.ap.v

\* two apertures with index 1, then a point that names index 1: it shares the first
C22_Witness ==
    /\ Len(apertures) = 2
    /\ apertures[1].index = apertures[2].index
    /\ Len(points) = 1
    /\ points[1].style = "NORMAL"
    /\ points[1].ap_ref = 1

\* C27: an image id that the naming pass makes up for a point with unset image differs
\* from the image id of every other point handed to the pass, made up or not.
C27_FabricatedImageUnique ==
    naming.phase = "return" =>
        \A k \in 1..Len(naming.points) :
            naming.points[k].image = 0 =>
                \A j \in 1..Len(naming.points) :
                    j # k => naming.result[j].image # naming.result[k].image

\* C28: after load_file has returned, the image of every point with a non-zero image
\* is an index of Les.images that holds a ViewImage, and for a regular point the
\* bounding box of that image contains the point's scaled position.
C28_PointImageIndexesImages ==
    pc = "done" =>
        \A k \in 1..Len(points) :
            points[k].image # 0 =>
                /\ points[k].image \in 1..Len(images)
                /\ points[k].style = "NORMAL" =>
                      LET vi == images[points[k].image]
                      IN  /\ ~vi.initial
                          /\ vi.min_x <= points[k].x /\ points[k].x <= vi.max_x
                          /\ vi.min_y <= points[k].y /\ points[k].y <= vi.max_y

\* the bounds b are shown centred in the area below the toolbars
Centred(v, b) ==
    LET top_y == v.toolbar_height + v.xml_toolbar_height
    IN  /\ FAdd(FMul(Frac(b[1] + b[3], 2), v.zoom_level), v.pan_offset[1]) = Frac(v.w, 2)
        /\ FAdd(FMul(Frac(b[2] + b[4], 2), v.zoom_level), v.pan_offset[2])
               = FAdd(Whole(top_y), Frac(v.h - top_y, 2))

\* C21: fit_xml_step(include_repeats) completes without raising; when the step yields
\* no content it falls back to reset_xml_view; when its bounds have positive width and
\* height (and the widget leaves room) zoom_level and pan_offset are set together so
\* that the bounds are centred; zoom_level never changes while pan_offset stays.
C21_FitStepCompletes ==
    [][(walk = "fit_step" /\ walk' = "none") =>
          LET b == fit_step_run'.bounds
          IN  /\ ~fit_step_run'.err
              /\ fit_step_run'.ended \in {"returned", "reset_xml_view"}
              /\ fit_step_run'.ended = "reset_xml_view" <=> b = NoBounds
              /\ (/\ b # NoBounds
                  /\ b[3] > b[1] /\ b[4] > b[2]
                  /\ view.w > 100
                  /\ view.h - view.toolbar_height - view.xml_toolbar_height > 100)
                    => Centred(view', b)
              /\ view'.zoom_level # view.zoom_level =>
                    view'.pan_offset # view.pan_offset]_vars

\* C26: zoom_level is strictly positive in every reachable state.
C26_ZoomPositive == view.zoom_level[1] > 0

\* C30: every sample angle of arc_polyline_world_points passes _angle_in_sweep for
\* the arc's start, end and direction; the first sample is at the start angle and
\* the last at the end angle, modulo 360
C30_SamplesInSweep ==
    sampling.phase = "return" =>
        /\ AngleInSweepRounded(sampling.a, sampling.e, sampling.start_deg_math,
                               sampling.end_deg_math, sampling.direction)
        /\ sampling.i = 0 => FMod(sampling.a, 36000) = Whole(sampling.start_deg_math)
        /\ sampling.i = sampling.num_segments =>
               FMod(sampling.a, 36000) = Whole(sampling.end_deg_math)

\* the samples as exact angles pass the sweep test
SamplesInSweepExact ==
    sampling.phase = "return" =>
        AngleInSweepRounded(sampling.a, 0, sampling.start_deg_math,
                            sampling.end_deg_math, sampling.direction)

\* the first and the last sample are the end angles of the arc
SampleEndsAtArcEnds ==
    sampling.phase = "return" =>
        /\ sampling.i = 0 => FMod(sampling.a, 36000) = Whole(sampling.start_deg_math)
        /\ sampling.i = sampling.num_segments =>
               FMod(sampling.a, 36000) = Whole(sampling.end_deg_math)

====
